---- MODULE Spec2Model ----
(***************************************************************************)
(* Model of the map-to-3MF pipeline: ModelingService (generation of mesh   *)
(* records from OSM elements) and ExportService (3MF / STL encoding).      *)
(*                                                                         *)
(* Conventions of the model                                                *)
(*  - Latitudes and longitudes are integers counted in units of 1/111320   *)
(*    degree, so that latLonToLocal (factor 111320 per degree) maps one    *)
(*    unit to one metre; the selections lie at the equator, where          *)
(*    cos(centerLat) is 1 to thirteen decimal places.                      *)
(*  - Lengths of the configuration (heights, widths) are integers counted  *)
(*    in hundredths; this.scale is a multiple of 20, which makes           *)
(*    0.05 * scale and every configured length times scale an integer.     *)
(*  - A THREE.BufferGeometry is represented by its vertex count, its index *)
(*    count (or the absence of an index), whether all coordinates are      *)
(*    finite, and its bounding box (lo, hi).                               *)
(*  - A JS string that may be absent is the empty string (both are falsy). *)
(***************************************************************************)
EXTENDS Integers, Sequences, FiniteSets, TLC

VARIABLES
  models,         \* ModelingService.models
  modelStats,     \* ModelingService.modelStats
  terrainHeight,  \* ModelingService.terrainHeight
  scale,          \* ModelingService.scale
  centerPoint,    \* ModelingService.centerPoint  <<lon, lat>>
  scene,          \* meshes that are direct children of the THREE.Scene
  pc,             \* position inside generateModels
  call,           \* arguments of the current / last generateModels call
  idx,            \* index of the next element of osmData.elements
  pass,           \* history: number of generateModels calls started
  sameInput,      \* history: the current call repeats the previous arguments
  prevTotals,     \* history: totals getModelStats returned after the previous call
  writes,         \* history: who assigned terrainHeight during the current call
  calls,          \* history: builders invoked during the current call
  f_in, f_out,    \* pure-function harness: input and result
  x_models, x_out, x_pc, \* export harness: model list, output, position
  x_hist,         \* history: the list before the first export, exports made
  selectedBBox,   \* MainPage state: the selected bounding box, or Null
  selectedArea,   \* MainPage state: the selection as the map reported it, or Null
  osmData,        \* MainPage state: the data shown, or Null
  isLoading,      \* MainPage state: the loading overlay is shown
  error,          \* MainPage state: the error shown, or Null
  basicConfig,    \* MainPage state: the basic configuration
  fetches,        \* calls of OverpassService.queryArea that have not settled
  invoked         \* history: number of handleAreaSelected calls made

genVars == <<models, modelStats, terrainHeight, scale, centerPoint, scene, pc, call, idx, pass, sameInput, prevTotals, writes, calls>>
funVars == <<f_in, f_out>>
expVars == <<x_models, x_out, x_pc, x_hist>>
mainVars == <<selectedBBox, selectedArea, osmData, isLoading, error, basicConfig, fetches, invoked>>
vars == <<genVars, funVars, expVars, mainVars>>

(***************************************************************************)
(* Bounds of the model                                                     *)
(***************************************************************************)
MaxElements == 2
MaxPasses == 2

(***************************************************************************)
(* Small helpers                                                           *)
(***************************************************************************)
Abs(n) == IF n < 0 THEN -n ELSE n
Min2(a, b) == IF a <= b THEN a ELSE b
Max2(a, b) == IF a >= b THEN a ELSE b
SetMin(S) == CHOOSE m \in S : \A n \in S : m <= n
SetMax(S) == CHOOSE m \in S : \A n \in S : m >= n
Range(seq) == {seq[i] : i \in 1..Len(seq)}

RECURSIVE ISqrtIn(_, _, _)
ISqrtIn(n, lo, hi) ==
  IF lo >= hi THEN lo
  ELSE LET mid == (lo + hi + 1) \div 2
       IN IF mid * mid <= n THEN ISqrtIn(n, mid, hi) ELSE ISqrtIn(n, lo, mid - 1)
\* Math.sqrt, rounded down to the unit (by bisection)
Sqrt(n) == ISqrtIn(n, 0, Min2(n, 46340))

Pt(lat, lon) == [lat |-> lat, lon |-> lon]
BBox(n, s, e, w) == [north |-> n, south |-> s, east |-> e, west |-> w]

(***************************************************************************)
(* Spatial filter                                                          *)
(***************************************************************************)
getElementBounds(geometry) ==
  [north |-> SetMax({geometry[i].lat : i \in 1..Len(geometry)}),
   south |-> SetMin({geometry[i].lat : i \in 1..Len(geometry)}),
   east  |-> SetMax({geometry[i].lon : i \in 1..Len(geometry)}),
   west  |-> SetMin({geometry[i].lon : i \in 1..Len(geometry)})]

boundsIntersect(bounds1, bounds2) ==
  ~(\/ bounds1.east < bounds2.west
    \/ bounds1.west > bounds2.east
    \/ bounds1.north < bounds2.south
    \/ bounds1.south > bounds2.north)

isPointInBounds_strict(point, bbox) ==
  /\ point.lat > bbox.south
  /\ point.lat < bbox.north
  /\ point.lon > bbox.west
  /\ point.lon < bbox.east

isPointInBounds(point, bbox) ==
  /\ point.lat >= bbox.south
  /\ point.lat <= bbox.north
  /\ point.lon >= bbox.west
  /\ point.lon <= bbox.east

\* One step of the ray-casting loop: does edge (pi, pj) toggle `inside`?
\*   (yi > y) != (yj > y)  &&  x < (xj - xi) * (y - yi) / (yj - yi) + xi
\* The division is exact over the rationals: the comparison is multiplied by
\* (yj - yi), whose sign turns the inequality.
rayCrosses(point, pi, pj) ==
  LET x == point.lon
      y == point.lat
      xi == pi.lon
      yi == pi.lat
      xj == pj.lon
      yj == pj.lat
      d == yj - yi
  IN /\ (yi > y) # (yj > y)
     /\ IF d > 0
          THEN (x - xi) * d < (xj - xi) * (y - yi)
          ELSE (x - xi) * d > (xj - xi) * (y - yi)

isPointInPolygon(point, polygon) ==
  LET n == Len(polygon)
      prev(i) == IF i = 1 THEN n ELSE i - 1
      crossings == {i \in 1..n : rayCrosses(point, polygon[i], polygon[prev(i)])}
  IN Cardinality(crossings) % 2 = 1

\* Mutation of isPolygonContainsBounds: every corner outside the polygon.
isPolygonContainsBounds_negated(polygon, bbox) ==
  LET corners == {Pt(bbox.north, bbox.west), Pt(bbox.north, bbox.east),
                  Pt(bbox.south, bbox.east), Pt(bbox.south, bbox.west)}
  IN \A corner \in corners : ~isPointInPolygon(corner, polygon)

isPolygonContainsBounds(polygon, bbox) ==
  LET corners == {Pt(bbox.north, bbox.west), Pt(bbox.north, bbox.east),
                  Pt(bbox.south, bbox.east), Pt(bbox.south, bbox.west)}
  IN \A corner \in corners : isPointInPolygon(corner, polygon)

lineIntersectsBounds(p1, p2, bbox) ==
  LET minLat == Min2(p1.lat, p2.lat)
      maxLat == Max2(p1.lat, p2.lat)
      minLon == Min2(p1.lon, p2.lon)
      maxLon == Max2(p1.lon, p2.lon)
  IN ~(\/ maxLat < bbox.south
       \/ minLat > bbox.north
       \/ maxLon < bbox.west
       \/ minLon > bbox.east)

\* Mutation of isElementInBounds: the area tag is not consulted.
isElementInBounds_ignoresAreaTag(element, bbox) ==
  IF ~element.hasGeometry \/ Len(element.geometry) = 0 THEN FALSE
  ELSE
    LET geometry == element.geometry
        n == Len(geometry)
    IN IF ~boundsIntersect(getElementBounds(geometry), bbox) THEN FALSE
       ELSE IF \E i \in 1..n : isPointInBounds(geometry[i], bbox) THEN TRUE
       ELSE IF n > 1 /\ \E i \in 1..(n - 1) : lineIntersectsBounds(geometry[i], geometry[i + 1], bbox) THEN TRUE
       ELSE IF n > 2 /\ lineIntersectsBounds(geometry[n], geometry[1], bbox) THEN TRUE
       ELSE IF n > 2 THEN isPolygonContainsBounds(geometry, bbox)
       ELSE FALSE

\* element: [id, hasTags, tags, hasGeometry, geometry]
isElementInBounds(element, bbox) ==
  IF ~element.hasGeometry \/ Len(element.geometry) = 0 THEN FALSE
  ELSE
    LET geometry == element.geometry
        n == Len(geometry)
        isArea == ~(element.hasTags /\ element.tags.area = "no")
    IN IF ~boundsIntersect(getElementBounds(geometry), bbox) THEN FALSE
       ELSE IF \E i \in 1..n : isPointInBounds(geometry[i], bbox) THEN TRUE
       ELSE IF n > 1 /\ \E i \in 1..(n - 1) : lineIntersectsBounds(geometry[i], geometry[i + 1], bbox) THEN TRUE
       ELSE IF n > 2 /\ isArea /\ lineIntersectsBounds(geometry[n], geometry[1], bbox) THEN TRUE
       ELSE IF n > 2 /\ isArea THEN isPolygonContainsBounds(geometry, bbox)
       ELSE FALSE

(***************************************************************************)
(* Geometry constructors of three.js, as used by the builders              *)
(***************************************************************************)
Geometry(count, indexed, indexCount, finite, lo, hi) ==
  [count |-> count, indexed |-> indexed, indexCount |-> indexCount,
   finite |-> finite, lo |-> lo, hi |-> hi]

\* new THREE.BoxGeometry(w, h, d): 6 faces of 4 vertices and 2 triangles,
\* centred on the origin (halves rounded down to the unit).
BoxGeometry(w, h, d) ==
  Geometry(24, TRUE, 36, TRUE,
           <<-(w \div 2), -(h \div 2), -(d \div 2)>>,
           <<w - (w \div 2), h - (h \div 2), d - (d \div 2)>>)

\* new THREE.ExtrudeGeometry(shape, {depth, bevel...}): the shape lies in the
\* XY plane and is extruded along +Z; with a bevel the solid reaches from
\* -bevelThickness to depth + bevelThickness in Z and is widened by bevelSize
\* in X and Y (exact for outlines whose extreme sides are axis-parallel).
\* Non-indexed: 2 caps of n - 2 triangles and `layers` bands of 2n triangles.
ExtrudeGeometry(pts, depth, bevelThickness, bevelSize, layers) ==
  LET n == Len(pts)
      xs == {pts[i].x : i \in 1..n}
      ys == {pts[i].z : i \in 1..n}
      tris == 2 * (n - 2) + 2 * n * layers
  IN Geometry(3 * tris, FALSE, 0, TRUE,
              <<SetMin(xs) - bevelSize, SetMin(ys) - bevelSize, -bevelThickness>>,
              <<SetMax(xs) + bevelSize, SetMax(ys) + bevelSize, depth + bevelThickness>>)

\* new THREE.ShapeGeometry(shape): flat, indexed, n vertices, n - 2 triangles.
ShapeGeometry(pts) ==
  LET n == Len(pts)
      xs == {pts[i].x : i \in 1..n}
      ys == {pts[i].z : i \in 1..n}
  IN Geometry(n, TRUE, 3 * (n - 2), TRUE,
              <<SetMin(xs), SetMin(ys), 0>>, <<SetMax(xs), SetMax(ys), 0>>)

\* Outline of createRoundedBoxGeometry: 4 lines (1 point each) and 4
\* quadratic curves (12 points each), the closing point counted once.
RoundedOutlinePoints == 4 * 1 + 4 * 12

createRoundedBoxGeometry(width, height, depth) ==
  LET n == RoundedOutlinePoints
      tris == 2 * (n - 2) + 2 * n
  IN Geometry(3 * tris, FALSE, 0, TRUE,
              <<-(width \div 2), -(depth \div 2), 0>>,
              <<width - (width \div 2), depth - (depth \div 2), height>>)

NullGeometry == [isNull |-> TRUE, count |-> 0, indexCount |-> 0, lo |-> <<0, 0, 0>>, hi |-> <<0, 0, 0>>]

(***************************************************************************)
(* ModelingService: helpers                                                *)
(***************************************************************************)
\* config.global?.scale || 1
applyGlobalScale(value, config) ==
  value * (IF config.global.scale = 0 THEN 1 ELSE config.global.scale)

\* Twice the shoelace sum over the raw lat/lon pairs.
Shoelace2(points) ==
  LET n == Len(points)
      nxt(i) == IF i = n THEN 1 ELSE i + 1
      term[i \in 0..n] ==
        IF i = 0 THEN 0
        ELSE term[i - 1] + points[i].lat * points[nxt(i)].lon
                         - points[nxt(i)].lat * points[i].lon
  IN term[n]

\* calculatePolygonArea(points) < minArea.  The area is
\* |sum| / 2 * 111000 * 111000 in degrees; with coordinates in units of
\* 1/111320 degree the factor is (111000/111320)^2 = (2775/2783)^2.
areaBelow(points, minArea) ==
  IF Len(points) < 3 THEN 0 < minArea
  ELSE Abs(Shoelace2(points)) * 2775 * 2775 < 2 * minArea * 2783 * 2783

shouldIgnoreBuilding(element, config) ==
  IF ~element.hasGeometry \/ Len(element.geometry) < 3 THEN TRUE
  ELSE areaBelow(element.geometry,
                 IF config.buildings.ignoreSmaller = 0 THEN 10 ELSE config.buildings.ignoreSmaller)

\* s is the service state [models, modelStats, terrainHeight, scale,
\* centerPoint, scene, writes, calls, pass].
latLonToLocal(s, lat, lon) ==
  [x |-> (lon - s.centerPoint[1]) * s.scale,
   z |-> -((lat - s.centerPoint[2]) * s.scale)]

\* Haversine distance between two points of equal latitude or of equal
\* longitude, in metres rounded to the unit (R * pi / 180 = 111195 m per
\* degree, 111320 units per degree).
calculateDistance(lon1, lat1, lon2, lat2) ==
  LET u == Abs(lon2 - lon1) + Abs(lat2 - lat1)
  IN (2 * u * 111195 + 111320) \div (2 * 111320)

\* element.geometry.filter(in bbox).map(latLonToLocal)
localPoints(s, element, bbox) ==
  LET inside(p) == isPointInBounds(p, bbox)
      kept == SelectSeq(element.geometry, inside)
  IN [i \in 1..Len(kept) |-> latLonToLocal(s, kept[i].lat, kept[i].lon)]

validateGeometryForExport(geometry) ==
  geometry.count > 0 /\ geometry.finite

updateModelStats(stats, exportGeometry) ==
  [stats EXCEPT !.totalVertices = @ + exportGeometry.count,
                !.totalTriangles = @ + (exportGeometry.indexCount \div 3)]

\* createOptimizedIndices: the index 0 .. vertexCount - 1
createOptimizedIndices(vertexCount) == vertexCount

\* The geometry object createExportableGeometry returns (null when the
\* validation fails): every vertex moved by position, no rotation applied.
createExportableGeometry(geometry, position) ==
  IF ~validateGeometryForExport(geometry) THEN NullGeometry
  ELSE [isNull |-> FALSE,
        count |-> geometry.count,
        indexCount |-> IF geometry.indexed THEN geometry.indexCount
                       ELSE createOptimizedIndices(geometry.count),
        lo |-> <<geometry.lo[1] + position[1], geometry.lo[2] + position[2], geometry.lo[3] + position[3]>>,
        hi |-> <<geometry.hi[1] + position[1], geometry.hi[2] + position[2], geometry.hi[3] + position[3]>>]

\* Statistics after createExportableGeometry ran on the geometry.
statsAfterExportable(stats, geometry, position) ==
  IF createExportableGeometry(geometry, position).isNull THEN stats
  ELSE updateModelStats(stats, createExportableGeometry(geometry, position))

Mesh(kind, geometry, position, rotX, rotY) ==
  [kind |-> kind, geometry |-> geometry, position |-> position, rotX |-> rotX, rotY |-> rotY]

NoRotation == <<0, 0>>

\* A record of this.models.  pass and baseline are history fields: the call
\* that pushed the record and the value of this.terrainHeight it was built on.
Model3D(s, kind, el, seg, geometry, position, hasRotation, rotation) ==
  [id |-> [kind |-> kind, el |-> el, seg |-> seg],
   type |-> IF kind = "base-platform" THEN "terrain" ELSE kind,
   geometry |-> geometry, position |-> position,
   hasRotation |-> hasRotation, rotation |-> rotation,
   pass |-> s.pass, baseline |-> s.terrainHeight]

(***************************************************************************)
(* ModelingService: builders                                               *)
(***************************************************************************)
Numerals == [n0 |-> 0, n3 |-> 3, n5 |-> 5, n12 |-> 12]
NumeralOf(str) ==
  IF str = "0" THEN "n0" ELSE IF str = "3" THEN "n3" ELSE IF str = "5" THEN "n5" ELSE IF str = "12" THEN "n12" ELSE ""

\* parseInt / parseFloat of a tag value; anything but a numeral is NaN.
parseNumber(str) ==
  IF NumeralOf(str) = "" THEN [nan |-> TRUE, v |-> 0]
  ELSE [nan |-> FALSE, v |-> Numerals[NumeralOf(str)]]

TagOf(element, key) == IF element.hasTags THEN element.tags[key] ELSE ""

\* Mutation of buildingHeightOf: a levels tag is preferred to a height tag.
buildingHeightOf_levelsFirst(s, element, config) ==
  LET levels == parseNumber(IF TagOf(element, "levels") = "" THEN "3" ELSE TagOf(element, "levels"))
      tagHeight == IF TagOf(element, "height") = "" THEN [nan |-> TRUE, v |-> 0]
                   ELSE parseNumber(TagOf(element, "height"))
      baseHeight == applyGlobalScale(config.buildings.baseHeight, config)
      minHeight == applyGlobalScale(IF config.buildings.minHeight = 0 THEN 300 ELSE config.buildings.minHeight, config)
      useTag == ~tagHeight.nan /\ tagHeight.v # 0 /\ TagOf(element, "levels") = ""
  IN IF useTag THEN [nan |-> FALSE, v |-> (tagHeight.v * 100 * s.scale) \div 100]
     ELSE IF levels.nan THEN [nan |-> TRUE, v |-> 0]
     ELSE [nan |-> FALSE,
           v |-> (Max2(baseHeight, Max2(minHeight, levels.v * 3 * 100)) * s.scale) \div 100]

\* Lines 1095-1110: the extrusion height, in hundredths before the scale
\* is applied; [nan, v] with v in units.
buildingHeightOf(s, element, config) ==
  LET levels == parseNumber(IF TagOf(element, "levels") = "" THEN "3" ELSE TagOf(element, "levels"))
      tagHeight == IF TagOf(element, "height") = "" THEN [nan |-> TRUE, v |-> 0]
                   ELSE parseNumber(TagOf(element, "height"))
      baseHeight == applyGlobalScale(config.buildings.baseHeight, config)
      minHeight == applyGlobalScale(IF config.buildings.minHeight = 0 THEN 300 ELSE config.buildings.minHeight, config)
      useTag == ~tagHeight.nan /\ tagHeight.v # 0
  IN IF useTag THEN [nan |-> FALSE, v |-> (tagHeight.v * 100 * s.scale) \div 100]
     ELSE IF levels.nan THEN [nan |-> TRUE, v |-> 0]
     ELSE [nan |-> FALSE,
           v |-> (Max2(baseHeight, Max2(minHeight, levels.v * 3 * 100)) * s.scale) \div 100]

createBuilding(s, element, config, bbox) ==
  IF ~element.hasGeometry \/ Len(element.geometry) < 3 THEN s
  ELSE
    LET points == localPoints(s, element, bbox)
    IN IF Len(points) < 3 THEN s
       ELSE
         LET height == buildingHeightOf(s, element, config)
             bevel == (5 * s.scale) \div 100
             geometry == [ExtrudeGeometry(points, height.v, bevel, bevel, 3) EXCEPT !.finite = ~height.nan]
             position == <<0, s.terrainHeight, 0>>
             building == Mesh("building", geometry, position, TRUE, NoRotation)
             counted == [s.modelStats EXCEPT !.buildings = @ + 1,
                                            !.totalVertices = @ + geometry.count,
                                            !.totalTriangles = @ + (geometry.count \div 3)]
         IN [s EXCEPT !.scene = Append(@, building),
                      !.modelStats = statsAfterExportable(counted, geometry, position),
                      !.models = Append(@, Model3D(s, "building", element.id, 0,
                                   createExportableGeometry(geometry, position), position, FALSE, NoRotation))]

\* Mutation of roadConfigOf: the category-level values whatever the class.
roadConfigOf_categoryOnly(element, config) ==
  [width |-> applyGlobalScale(config.roads.width, config),
   height |-> applyGlobalScale(config.roads.height, config),
   color |-> config.roads.color]

\* modelConfig.roads.types[roadType] || { category-level fallback }
roadConfigOf(element, config) ==
  IF TagOf(element, "highway") \in DOMAIN config.roads.types
    THEN config.roads.types[TagOf(element, "highway")]
    ELSE [width |-> applyGlobalScale(config.roads.width, config),
          height |-> applyGlobalScale(config.roads.height, config),
          color |-> config.roads.color]

segDistance(start, end) ==
  Sqrt((end.x - start.x) * (end.x - start.x) + (end.z - start.z) * (end.z - start.z))

\* distance < 0.1 on integer coordinates
segTooShort(start, end) ==
  (end.x - start.x) * (end.x - start.x) + (end.z - start.z) * (end.z - start.z) = 0

\* Mutation of roadSegment: the segment raises the baseline by its height.
roadSegment_raisesBaseline(s, element, points, roadConfig, i) ==
  LET start == points[i + 1]
      end == points[i + 2]
      geometry == BoxGeometry(segDistance(start, end), (roadConfig.height * s.scale) \div 100,
                              (roadConfig.width * s.scale) \div 100)
      position == <<(start.x + end.x) \div 2, s.terrainHeight, (start.z + end.z) \div 2>>
      angle == <<end.z - start.z, end.x - start.x>>
  IN IF segTooShort(start, end) THEN s
     ELSE [s EXCEPT !.scene = Append(@, Mesh("road", geometry, position, FALSE, angle)),
                    !.modelStats = statsAfterExportable(@, geometry, position),
                    !.terrainHeight = @ + (roadConfig.height * s.scale) \div 100,
                    !.models = Append(@, Model3D(s, "road", element.id, i,
                                 createExportableGeometry(geometry, position), position, TRUE, angle)
                                 @@ [material |-> [color |-> roadConfig.color]])]

\* Mutation of roadSegment: the segment number is left out of the id.
roadSegment_unnumbered(s, element, points, roadConfig, i) ==
  LET start == points[i + 1]
      end == points[i + 2]
      geometry == BoxGeometry(segDistance(start, end), (roadConfig.height * s.scale) \div 100,
                              (roadConfig.width * s.scale) \div 100)
      position == <<(start.x + end.x) \div 2, s.terrainHeight, (start.z + end.z) \div 2>>
      angle == <<end.z - start.z, end.x - start.x>>
  IN IF segTooShort(start, end) THEN s
     ELSE [s EXCEPT !.scene = Append(@, Mesh("road", geometry, position, FALSE, angle)),
                    !.modelStats = statsAfterExportable(@, geometry, position),
                    !.models = Append(@, Model3D(s, "road", element.id, 0,
                                 createExportableGeometry(geometry, position), position, TRUE, angle)
                                 @@ [material |-> [color |-> roadConfig.color]])]

\* One iteration of the loop of createRoad (lines 1224-1282), i from 0.
roadSegment(s, element, points, roadConfig, i) ==
  LET start == points[i + 1]
      end == points[i + 2]
  IN IF segTooShort(start, end) THEN s
     ELSE
       LET geometry == BoxGeometry(segDistance(start, end),
                                   (roadConfig.height * s.scale) \div 100,
                                   (roadConfig.width * s.scale) \div 100)
           position == <<(start.x + end.x) \div 2, s.terrainHeight, (start.z + end.z) \div 2>>
           angle == <<end.z - start.z, end.x - start.x>>
           road == Mesh("road", geometry, position, FALSE, angle)
       IN [s EXCEPT !.scene = Append(@, road),
                    !.modelStats = statsAfterExportable(@, geometry, position),
                    !.models = Append(@, Model3D(s, "road", element.id, i,
                                 createExportableGeometry(geometry, position), position, TRUE, angle)
                                 @@ [material |-> [color |-> roadConfig.color]])]

RECURSIVE roadLoop(_, _, _, _, _)
roadLoop(s, element, points, roadConfig, i) ==
  IF i >= Len(points) - 1 THEN s
  ELSE roadLoop(roadSegment(s, element, points, roadConfig, i), element, points, roadConfig, i + 1)

createRoad(s, element, config, bbox) ==
  IF ~element.hasGeometry \/ Len(element.geometry) < 2 THEN s
  ELSE
    LET points == localPoints(s, element, bbox)
    IN IF Len(points) < 2 THEN s
       ELSE roadLoop(s, element, points, roadConfigOf(element, config), 0)

\* new THREE.CylinderGeometry(rTop, rBottom, height, 8): a torso of 2 * 9
\* vertices and two caps of 8 + 9 vertices; 16 + 8 + 8 triangles.
CylinderGeometry(radiusTop, radiusBottom, height) ==
  LET r == Max2(radiusTop, radiusBottom)
  IN Geometry(52, TRUE, 96, TRUE,
              <<-r, -(height \div 2), -r>>, <<r, height - (height \div 2), r>>)

\* The pillars addBridgePillars adds to the scene: i = 0 .. pillarCount.
bridgePillars(s, bridgePosition, start, end, pillarConfig, distance) ==
  LET pillarCount == distance \div pillarConfig.spacing
      pillarHeight == bridgePosition[2] - s.terrainHeight
      den == Max2(pillarCount, 1)
      pillar(i) ==
        Mesh("pillar",
             CylinderGeometry((pillarConfig.radius * s.scale) \div 100,
                              (pillarConfig.radius * 12 * s.scale) \div 1000, pillarHeight),
             <<start.x + ((end.x - start.x) * i) \div den,
               s.terrainHeight + pillarHeight \div 2,
               start.z + ((end.z - start.z) * i) \div den>>,
             FALSE, NoRotation)
  IN [k \in 1..(pillarCount + 1) |-> pillar(k - 1)]

bridgeSegment(s, element, points, config, i) ==
  LET start == points[i + 1]
      end == points[i + 2]
  IN IF segTooShort(start, end) THEN s
     ELSE
       LET distance == segDistance(start, end)
           bridgeHeight == applyGlobalScale(config.bridges.height, config)
           bridgeWidth == applyGlobalScale(config.bridges.width, config)
           geometry == BoxGeometry(distance, (bridgeHeight * s.scale) \div 100,
                                   (bridgeWidth * s.scale) \div 100)
           position == <<(start.x + end.x) \div 2,
                         s.terrainHeight + ((bridgeHeight * s.scale) \div 100) \div 2 + 2 * s.scale,
                         (start.z + end.z) \div 2>>
           angle == <<end.z - start.z, end.x - start.x>>
           bridge == Mesh("bridge", geometry, position, FALSE, angle)
           pillars == IF config.bridges.pillarConfig.enabled
                        THEN bridgePillars(s, position, start, end, config.bridges.pillarConfig, distance)
                        ELSE <<>>
       IN [s EXCEPT !.scene = Append(@ \o pillars, bridge),
                    !.modelStats = statsAfterExportable(@, geometry, position),
                    !.models = Append(@, Model3D(s, "bridge", element.id, i,
                                 createExportableGeometry(geometry, position), position, TRUE, angle))]

RECURSIVE bridgeLoop(_, _, _, _, _)
bridgeLoop(s, element, points, config, i) ==
  IF i >= Len(points) - 1 THEN s
  ELSE bridgeLoop(bridgeSegment(s, element, points, config, i), element, points, config, i + 1)

createBridge(s, element, config, bbox) ==
  IF ~element.hasGeometry \/ Len(element.geometry) < 2 THEN s
  ELSE
    LET points == localPoints(s, element, bbox)
    IN IF Len(points) < 2 THEN s
       ELSE bridgeLoop(s, element, points, config, 0)

\* new THREE.RingGeometry(inner, outer, 16): 2 rings of 17 vertices, 32 triangles.
RingGeometry(inner, outer) ==
  Geometry(34, TRUE, 96, TRUE, <<-outer, -outer, 0>>, <<outer, outer, 0>>)

\* addWaterWaves: three ripples at points drawn by Math.random; rnd[k] is
\* the k-th draw, as the index it selects among `points`.
waterRipples(s, points, rnd) ==
  [k \in 1..3 |->
     Mesh("ripple", RingGeometry((50 * s.scale) \div 100, s.scale),
          <<points[rnd[2 * k - 1]].x, s.terrainHeight + s.scale \div 100, points[rnd[2 * k]].z>>,
          TRUE, NoRotation)]

createWater(s, element, config, bbox, rnd) ==
  IF ~element.hasGeometry \/ Len(element.geometry) < 3 THEN s
  ELSE
    LET points == localPoints(s, element, bbox)
    IN IF Len(points) < 3 THEN s
       ELSE
         LET geometry == ShapeGeometry(points)
             position == <<0, s.terrainHeight, 0>>
             water == Mesh("water", geometry, position, TRUE, NoRotation)
             ripples == IF config.water.waveConfig.enabled
                          THEN waterRipples(s, points, [k \in 1..6 |-> IF rnd[k] THEN Len(points) ELSE 1])
                          ELSE <<>>
         IN [s EXCEPT !.scene = Append(@ \o ripples, water),
                      !.modelStats = statsAfterExportable(@, geometry, position),
                      !.models = Append(@, Model3D(s, "water", element.id, 0,
                                   createExportableGeometry(geometry, position), position, FALSE, NoRotation))]

\* addTrees: Math.min(10, Math.floor(points.length * density))
treeCount(points, vegetationConfig) ==
  Min2(10, (Len(points) * vegetationConfig.density) \div 100)

\* addTrees reads the identifier modelConfig, which is not in scope there
\* (line 1959): the first iteration of its loop raises a ReferenceError.
addTreesThrows(points, vegetationConfig) == treeCount(points, vegetationConfig) > 0

createVegetation(s, element, config, bbox) ==
  IF ~element.hasGeometry \/ Len(element.geometry) < 3 THEN s
  ELSE
    LET points == localPoints(s, element, bbox)
    IN IF Len(points) < 3 THEN s
       ELSE
         LET geometry == ShapeGeometry(points)
             vegetationHeight == applyGlobalScale(config.vegetation.height, config)
             position == <<0, s.terrainHeight + ((vegetationHeight * s.scale) \div 100) \div 2, 0>>
             vegetation == Mesh("vegetation", geometry, position, TRUE, NoRotation)
         IN IF config.vegetation.treeConfig.enabled /\ addTreesThrows(points, config.vegetation)
              THEN s  \* caught by the catch of lines 1534-1536
              ELSE [s EXCEPT !.scene = Append(@, vegetation),
                             !.modelStats = statsAfterExportable(@, geometry, position),
                             !.models = Append(@, Model3D(s, "vegetation", element.id, 0,
                                          createExportableGeometry(geometry, position), position, FALSE, NoRotation))]

(***************************************************************************)
(* ModelingService: classification and dispatch                            *)
(***************************************************************************)
getElementType(tags) ==
  IF tags.building # "" THEN "building"
  ELSE IF tags.highway # "" THEN "road"
  ELSE IF tags.bridge = "yes" THEN "bridge"
  ELSE IF tags.waterway # "" \/ tags.natural = "water" THEN "water"
  ELSE IF tags.landuse = "grass" \/ tags.landuse = "forest" \/ tags.natural = "wood" \/ tags.leisure = "park"
    THEN "vegetation"
  ELSE "unknown"

\* Mutation of branchOf: tags of no category are taken for vegetation.
branchOf_defaultsToVegetation(tags, config) ==
  IF tags.building # "" /\ config.buildings.enabled THEN "building"
  ELSE IF tags.highway # "" /\ config.roads.enabled THEN "road"
  ELSE IF tags.bridge = "yes" /\ config.bridges.enabled THEN "bridge"
  ELSE IF (tags.waterway # "" \/ tags.natural = "water") /\ config.water.enabled THEN "water"
  ELSE IF config.vegetation.enabled THEN "vegetation"
  ELSE "none"

\* Mutation of branchOf: the highway test comes before the building test.
branchOf_highwayFirst(tags, config) ==
  IF tags.highway # "" /\ config.roads.enabled THEN "road"
  ELSE IF tags.building # "" /\ config.buildings.enabled THEN "building"
  ELSE IF tags.bridge = "yes" /\ config.bridges.enabled THEN "bridge"
  ELSE IF (tags.waterway # "" \/ tags.natural = "water") /\ config.water.enabled THEN "water"
  ELSE IF (tags.landuse = "grass" \/ tags.landuse = "forest" \/ tags.natural = "wood" \/ tags.leisure = "park")
          /\ config.vegetation.enabled
    THEN "vegetation"
  ELSE "none"

\* The branch of the if / else-if chain of processElement (lines 987-1026)
\* that an element with these tags takes under this configuration.
branchOf(tags, config) ==
  IF tags.building # "" /\ config.buildings.enabled THEN "building"
  ELSE IF tags.highway # "" /\ config.roads.enabled THEN "road"
  ELSE IF tags.bridge = "yes" /\ config.bridges.enabled THEN "bridge"
  ELSE IF (tags.waterway # "" \/ tags.natural = "water") /\ config.water.enabled THEN "water"
  ELSE IF (tags.landuse = "grass" \/ tags.landuse = "forest" \/ tags.natural = "wood" \/ tags.leisure = "park")
          /\ config.vegetation.enabled
    THEN "vegetation"
  ELSE "none"

\* History: the builder an element is handed to, with the element's tags.
called(s, element, builder) ==
  [s EXCEPT !.calls = Append(@, [el |-> element.id, tags |-> element.tags, builder |-> builder])]

processElement(s, element, config, bbox, rnd) ==
  IF ~element.hasTags \/ ~element.hasGeometry THEN s
  ELSE IF ~isElementInBounds(element, bbox) THEN s
  ELSE
    LET branch == branchOf(element.tags, config)
    IN CASE branch = "building" ->
              IF shouldIgnoreBuilding(element, config) THEN s
              ELSE [createBuilding(called(s, element, "createBuilding"), element, config, bbox)
                      EXCEPT !.modelStats.buildings = @ + 1]
         [] branch = "road" ->
              [createRoad(called(s, element, "createRoad"), element, config, bbox)
                 EXCEPT !.modelStats.roads = @ + 1]
         [] branch = "bridge" ->
              [createBridge(called(s, element, "createBridge"), element, config, bbox)
                 EXCEPT !.modelStats.bridges = @ + 1]
         [] branch = "water" ->
              [createWater(called(s, element, "createWater"), element, config, bbox, rnd)
                 EXCEPT !.modelStats.water = @ + 1]
         [] branch = "vegetation" ->
              [createVegetation(called(s, element, "createVegetation"), element, config, bbox)
                 EXCEPT !.modelStats.vegetation = @ + 1]
         [] OTHER -> s

(***************************************************************************)
(* ModelingService: terrain and the generation pass                        *)
(***************************************************************************)
generateBasePlatform(s, bbox, config) ==
  IF ~config.terrain.enabled THEN s
  ELSE
    LET width == calculateDistance(bbox.west, bbox.south, bbox.east, bbox.south)
        depth == calculateDistance(bbox.west, bbox.south, bbox.west, bbox.north)
        platformHeight == config.terrain.baseHeight \div 100
        \* Math.abs(width / depth - 1) < 0.1
        nearSquare == depth > 0 /\ 10 * Abs(width - depth) < depth
        geometry == IF nearSquare THEN createRoundedBoxGeometry(width, platformHeight, depth)
                    ELSE BoxGeometry(width, platformHeight, depth)
        position == <<0, platformHeight \div 2, 0>>
        platform == Mesh("platform", geometry, position, FALSE, NoRotation)
        t == [s EXCEPT !.terrainHeight = platformHeight,
                       !.writes = Append(@, "generateBasePlatform")]
    IN [t EXCEPT !.scene = Append(@, platform),
                 !.modelStats = statsAfterExportable(@, geometry, position),
                 !.models = Append(@, Model3D(t, "base-platform", 0, 0,
                              createExportableGeometry(geometry, position), position, FALSE, NoRotation))]

\* Mutation of clearModels: the scene is emptied, this.models is kept.
clearModels_keepsList(s) == [s EXCEPT !.scene = <<>>]

\* clearModels: every mesh that is a child of the scene is removed and
\* disposed of, and this.models becomes the empty list.
clearModels(s) == [s EXCEPT !.scene = <<>>, !.models = <<>>]

\* Lines 659-668 of generateModels.
beginPass(s, c) ==
  LET t == clearModels(s)
      newScale == c.basicConfig.coordinateSystem.scale * c.basicConfig.renderHeight
  IN [t EXCEPT !.centerPoint = c.basicConfig.coordinateSystem.centerPoint,
               !.scale = newScale,
               !.terrainHeight = (applyGlobalScale(c.modelConfig.terrain.baseHeight, c.modelConfig) * newScale) \div 100,
               !.writes = <<"generateModels">>,
               !.calls = <<>>]

(***************************************************************************)
(* Inputs of the generation pass                                           *)
(***************************************************************************)
NoTags ==
  [building |-> "", highway |-> "", bridge |-> "", waterway |-> "", natural |-> "",
   landuse |-> "", leisure |-> "", area |-> "", levels |-> "", height |-> ""]

Element(id, hasTags, tags, hasGeometry, geometry) ==
  [id |-> id, hasTags |-> hasTags, tags |-> tags, hasGeometry |-> hasGeometry, geometry |-> geometry]

Square(lat, lon, side) ==
  <<Pt(lat, lon), Pt(lat, lon + side), Pt(lat + side, lon + side), Pt(lat + side, lon)>>

\* The elements the calls draw from: one or two of every category, an
\* element of two categories, one without tags, one mostly outside the box.
ElementPool ==
  { Element(1, TRUE, [NoTags EXCEPT !.building = "yes", !.levels = "5"], TRUE, Square(2, 2, 4)),
    Element(2, TRUE, [NoTags EXCEPT !.building = "yes", !.highway = "residential"], TRUE, Square(4, 0, 4)),
    Element(3, TRUE, [NoTags EXCEPT !.highway = "residential"], TRUE, <<Pt(4, 0), Pt(4, 4), Pt(4, 8)>>),
    Element(4, TRUE, [NoTags EXCEPT !.natural = "water"], TRUE, <<Pt(0, 0), Pt(0, 4), Pt(4, 0)>>),
    Element(5, TRUE, [NoTags EXCEPT !.landuse = "grass"], TRUE, <<Pt(6, 6), Pt(6, 8), Pt(8, 8)>>),
    Element(6, TRUE, [NoTags EXCEPT !.bridge = "yes"], TRUE, <<Pt(2, 0), Pt(2, 8)>>),
    Element(7, FALSE, NoTags, TRUE, Square(2, 2, 4)),
    Element(8, TRUE, [NoTags EXCEPT !.building = "yes"], TRUE, Square(6, 6, 6)) }

\* Elements with the tags the builders parse: a levels tag that is not a
\* number, height tags (a number, zero, not a number), a road class without
\* an entry in the lookup, a road segment along the latitude axis that is
\* longer than it is wide, tags of no category, no geometry list.
TaggedPool ==
  { Element(9, TRUE, [NoTags EXCEPT !.building = "yes", !.levels = "many"], TRUE, Square(2, 2, 4)),
    Element(10, TRUE, [NoTags EXCEPT !.building = "yes", !.height = "12"], TRUE, Square(2, 2, 4)),
    Element(11, TRUE, [NoTags EXCEPT !.building = "yes", !.height = "12", !.levels = "5"], TRUE, Square(2, 2, 4)),
    Element(12, TRUE, [NoTags EXCEPT !.building = "yes", !.height = "0", !.levels = "5"], TRUE, Square(2, 2, 4)),
    Element(13, TRUE, [NoTags EXCEPT !.building = "yes", !.height = "tall"], TRUE, Square(2, 2, 4)),
    Element(14, TRUE, [NoTags EXCEPT !.highway = "service"], TRUE, <<Pt(2, 2), Pt(2, 6), Pt(6, 6)>>),
    Element(15, TRUE, [NoTags EXCEPT !.highway = "residential"], TRUE, <<Pt(2, 2), Pt(8, 2)>>),
    Element(16, TRUE, [NoTags EXCEPT !.area = "yes"], TRUE, Square(2, 2, 4)),
    Element(17, TRUE, [NoTags EXCEPT !.building = "yes"], FALSE, <<>>) }

ElementLists == UNION {[1..n -> ElementPool] : n \in 0..MaxElements}

RoadTypes ==
  [motorway    |-> [width |-> 1200, height |-> 30, color |-> "#2d3748"],
   trunk       |-> [width |-> 1000, height |-> 25, color |-> "#4a5568"],
   primary     |-> [width |-> 800,  height |-> 20, color |-> "#718096"],
   secondary   |-> [width |-> 600,  height |-> 15, color |-> "#a0aec0"],
   residential |-> [width |-> 400,  height |-> 10, color |-> "#cbd5e0"],
   footway     |-> [width |-> 150,  height |-> 5,  color |-> "#e2e8f0"]]

\* initialModelConfig, with the enable flags the calls vary.
ModelConfig(terrainOn, buildingsOn, roadsOn, treesOn) ==
  [global |-> [scale |-> 1],
   terrain |-> [enabled |-> terrainOn, baseHeight |-> 200],
   buildings |-> [enabled |-> buildingsOn, baseHeight |-> 300, minHeight |-> 200, ignoreSmaller |-> 0],
   roads |-> [enabled |-> roadsOn, width |-> 400, height |-> 20, color |-> "#4a5568", types |-> RoadTypes],
   bridges |-> [enabled |-> TRUE, height |-> 150, width |-> 600,
                pillarConfig |-> [enabled |-> TRUE, radius |-> 50, spacing |-> 20]],
   water |-> [enabled |-> TRUE, waveConfig |-> [enabled |-> TRUE]],
   vegetation |-> [enabled |-> TRUE, height |-> 150, density |-> 100,
                   treeConfig |-> [enabled |-> treesOn]]]

\* Every combination of the terrain, buildings and roads switches without
\* trees, and the configuration with all of them and trees.
ModelConfigs ==
  {ModelConfig(t, b, r, FALSE) : t \in BOOLEAN, b \in BOOLEAN, r \in BOOLEAN}
    \cup {ModelConfig(TRUE, TRUE, TRUE, TRUE)}

\* The centre of the selection, as MainPage and PreviewPage set it.
BasicConfig(bbox) ==
  [renderHeight |-> 1,
   coordinateSystem |-> [centerPoint |-> <<(bbox.east + bbox.west) \div 2, (bbox.north + bbox.south) \div 2>>,
                         scale |-> 20]]

BBoxes == {BBox(8, 0, 8, 0), BBox(8, 0, 16, 0)}

Call(elements, modelConfig, bbox) ==
  [elements |-> elements, basicConfig |-> BasicConfig(bbox), modelConfig |-> modelConfig, bbox |-> bbox]

\* Boxes no selection should produce: zero height, zero width, south above north.
DegenerateBoxes == {BBox(4, 4, 8, 0), BBox(8, 0, 4, 4), BBox(0, 8, 8, 0)}

ShortLists == {e \in ElementLists : Len(e) <= 1}

RegularCalls == {Call(e, c, b) : e \in ElementLists, c \in ModelConfigs, b \in BBoxes}

DegenerateCalls == {Call(e, ModelConfig(TRUE, TRUE, TRUE, FALSE), b) : e \in ShortLists, b \in DegenerateBoxes}

TaggedCalls == {Call(<<e>>, ModelConfig(TRUE, TRUE, TRUE, FALSE), BBox(8, 0, 8, 0)) : e \in TaggedPool}

Calls == RegularCalls \cup DegenerateCalls \cup TaggedCalls

\* A later call repeats the arguments of the previous one, or regenerates a
\* short list with every category enabled.
LaterCalls(previous) ==
  {previous} \cup {c \in RegularCalls : Len(c.elements) <= 1 /\ c.modelConfig = ModelConfig(TRUE, TRUE, TRUE, FALSE)}

RandomDraws == {[k \in 1..6 |-> FALSE], [k \in 1..6 |-> TRUE]}

(***************************************************************************)
(* The generation pass as a state machine                                  *)
(***************************************************************************)
ZeroStats ==
  [buildings |-> 0, roads |-> 0, bridges |-> 0, water |-> 0, vegetation |-> 0,
   totalVertices |-> 0, totalTriangles |-> 0]

Svc ==
  [models |-> models, modelStats |-> modelStats, terrainHeight |-> terrainHeight,
   scale |-> scale, centerPoint |-> centerPoint, scene |-> scene,
   writes |-> writes, calls |-> calls, pass |-> pass]

Install(s) ==
  /\ models' = s.models
  /\ modelStats' = s.modelStats
  /\ terrainHeight' = s.terrainHeight
  /\ scale' = s.scale
  /\ centerPoint' = s.centerPoint
  /\ scene' = s.scene
  /\ writes' = s.writes
  /\ calls' = s.calls
  /\ pass' = s.pass

getModelStats == modelStats

GenInit ==
  /\ models = <<>>
  /\ modelStats = ZeroStats
  /\ terrainHeight = 0
  /\ scale = 1
  /\ centerPoint = <<0, 0>>
  /\ scene = <<>>
  /\ pc = "idle"
  /\ call = Call(<<>>, ModelConfig(TRUE, TRUE, TRUE, FALSE), BBox(8, 0, 8, 0))
  /\ idx = 0
  /\ pass = 0
  /\ sameInput = FALSE
  /\ prevTotals = [totalVertices |-> 0, totalTriangles |-> 0]
  /\ writes = <<>>
  /\ calls = <<>>

FunIdle == f_in = 0 /\ f_out = 0
ExpIdle == x_models = <<>> /\ x_out = 0 /\ x_pc = "idle" /\ x_hist = [input |-> <<>>, exports |-> 0]

Null == [isNull |-> TRUE]

\* MainPage as it is mounted (lines 13-19 and 29-30); the centre point of
\* initialBasicConfig is taken as the origin.
MainIdle ==
  /\ selectedBBox = Null
  /\ selectedArea = Null
  /\ osmData = Null
  /\ isLoading = FALSE
  /\ error = Null
  /\ basicConfig = [coordinateSystem |-> [centerPoint |-> <<0, 0>>]]
  /\ fetches = {}
  /\ invoked = 0

Init == GenInit /\ FunIdle /\ ExpIdle /\ MainIdle

\* generateModels is entered: clearModels and the set-up of lines 659-668.
GenStart ==
  /\ pc = "idle"
  /\ pass < MaxPasses
  /\ \E c \in (IF pass = 0 THEN Calls ELSE LaterCalls(call)) :
       /\ call' = c
       /\ sameInput' = (pass > 0 /\ c = call)
       /\ Install(beginPass([Svc EXCEPT !.pass = pass + 1], c))
  /\ prevTotals' = [totalVertices |-> getModelStats.totalVertices,
                    totalTriangles |-> getModelStats.totalTriangles]
  /\ pc' = "platform"
  /\ idx' = 0
  /\ UNCHANGED <<funVars, expVars, mainVars>>

\* Line 671: the terrain step.
GenPlatform ==
  /\ pc = "platform"
  /\ Install(generateBasePlatform(Svc, call.bbox, call.modelConfig))
  /\ pc' = "elements"
  /\ idx' = 1
  /\ UNCHANGED <<call, sameInput, prevTotals, funVars, expVars, mainVars>>

\* Mutation of GenElement: an element whose builder is entered and leaves no
\* record ends the forEach; the elements after it are not visited.
GenElement_abortsOnFailure ==
  /\ pc = "elements"
  /\ idx <= Len(call.elements)
  /\ \E rnd \in RandomDraws :
       LET t == IF isElementInBounds(call.elements[idx], call.bbox)
                  THEN processElement(Svc, call.elements[idx], call.modelConfig, call.bbox, rnd)
                  ELSE Svc
       IN /\ Install(t)
          /\ idx' = IF t.calls # calls /\ t.models = models THEN Len(call.elements) + 1 ELSE idx + 1
  /\ UNCHANGED <<pc, call, sameInput, prevTotals, funVars, expVars, mainVars>>

\* Lines 674-678: one iteration of the forEach over osmData.elements.
GenElement ==
  /\ pc = "elements"
  /\ idx <= Len(call.elements)
  /\ \E rnd \in RandomDraws :
       Install(IF isElementInBounds(call.elements[idx], call.bbox)
                 THEN processElement(Svc, call.elements[idx], call.modelConfig, call.bbox, rnd)
                 ELSE Svc)
  /\ idx' = idx + 1
  /\ UNCHANGED <<pc, call, sameInput, prevTotals, funVars, expVars, mainVars>>

\* Line 680: return this.models.
GenReturn ==
  /\ pc = "elements"
  /\ idx > Len(call.elements)
  /\ pc' = "idle"
  /\ UNCHANGED <<models, modelStats, terrainHeight, scale, centerPoint, scene, call, idx, pass,
                 sameInput, prevTotals, writes, calls, funVars, expVars, mainVars>>

Next == GenStart \/ GenPlatform \/ GenElement \/ GenReturn

Spec == Init /\ [][Next]_vars

TypeOK ==
  /\ pc \in {"idle", "platform", "elements"}
  /\ pass \in 0..MaxPasses
  /\ Len(models) <= 1 + 4 * MaxElements

(***************************************************************************)
(* Properties of the generation pass                                       *)
(***************************************************************************)
InPass == pass > 0 /\ pc \in {"elements", "idle"}

\* C1: at every point during and after a call of generateModels, every
\* record of this.models was pushed by that call: clearModels emptied the
\* list before the first push, so no record of an earlier call remains.
C1_OnlyCurrentPass ==
  /\ \A i \in 1..Len(models) : models[i].pass = pass
  /\ (pc = "platform" => models = <<>>)

\* A second call is under way or done, the first call had pushed records,
\* and the second has pushed records too.
C1_Witness ==
  /\ pass = 2
  /\ prevTotals.totalVertices > 0
  /\ Len(models) > 0

\* C2: a call of generateModels that repeats the arguments of the previous
\* call ends with the totalVertices and totalTriangles that getModelStats
\* returned after the previous call.
C2_Idempotent ==
  (pc = "idle" /\ pass >= 2 /\ sameInput)
    => /\ getModelStats.totalVertices = prevTotals.totalVertices
       /\ getModelStats.totalTriangles = prevTotals.totalTriangles

\* C3, as claimed: by the time elements are processed, terrainHeight has
\* been assigned exactly once in the call, by the terrain step.
C3_AssignedOnceByTerrain ==
  InPass => writes = <<"generateBasePlatform">>

\* C3, amended: terrainHeight is assigned only before the first element is
\* processed - by the set-up of generateModels and, when the terrain is
\* enabled, once more by the terrain step - no builder assigns it, and every
\* non-terrain record was built on the value it has.
C3_AssignedBeforeElements ==
  InPass =>
    /\ writes = IF call.modelConfig.terrain.enabled
                  THEN <<"generateModels", "generateBasePlatform">>
                  ELSE <<"generateModels">>
    /\ terrainHeight = IF call.modelConfig.terrain.enabled
                         THEN call.modelConfig.terrain.baseHeight \div 100
                         ELSE (applyGlobalScale(call.modelConfig.terrain.baseHeight, call.modelConfig) * scale) \div 100
    /\ \A i \in 1..Len(models) : models[i].type # "terrain" => models[i].baseline = terrainHeight

\* A call with the terrain enabled has built a terrain record and then
\* records of two other categories.
C3_Witness ==
  /\ InPass
  /\ Len(writes) = 2
  /\ \E i, j \in 1..Len(models) :
       /\ models[i].type = "terrain"
       /\ models[j].type = "road"
  /\ \E i \in 1..Len(models) : models[i].type = "building"

\* C4: an element that carries a building tag and a highway tag is handed
\* to the building builder, whatever the configuration - never to the road
\* builder or to a builder of lower precedence.
C4_BuildingTagWins ==
  \A i \in 1..Len(calls) :
    (calls[i].tags.building # "" /\ calls[i].tags.highway # "")
      => calls[i].builder = "createBuilding"

\* rotation.x = -PI/2 turns the local +Z axis into the world +Y axis.
MeshLowestY(mesh) ==
  mesh.position[2] + (IF mesh.rotX THEN mesh.geometry.lo[3] ELSE mesh.geometry.lo[2])

\* C6: the lowest vertex Y of every building mesh, and of the geometry of
\* every building record of this.models, equals terrainHeight.
C6_BuildingFlush ==
  /\ \A i \in 1..Len(scene) :
       scene[i].kind = "building" => MeshLowestY(scene[i]) = terrainHeight
  /\ \A i \in 1..Len(models) :
       (models[i].type = "building" /\ ~models[i].geometry.isNull)
         => models[i].geometry.lo[2] = terrainHeight

(***************************************************************************)
(* The spatial filter on its own: isElementInBounds applied to every       *)
(* element of up to MaxPoints points on the grid 0..GridMax, and to a      *)
(* closed ring around the grid, against a box inside the grid.             *)
(***************************************************************************)
GridMax == 3
MaxPoints == 3

GridPoints == {Pt(lat, lon) : lat \in 0..GridMax, lon \in 0..GridMax}

FilterBox == BBox(2, 1, 2, 1)

\* A closed way around the grid, first node repeated at the end.
EnclosingRing == <<Pt(0, 0), Pt(0, GridMax), Pt(GridMax, GridMax), Pt(GridMax, 0), Pt(0, 0)>>

\* A closed way along two sides of the grid and back: its bounding
\* rectangle is the grid, its interior is empty.
FoldedRing == <<Pt(0, 0), Pt(0, GridMax), Pt(GridMax, GridMax), Pt(0, GridMax), Pt(0, 0)>>

FilterGeometries ==
  UNION {[1..n -> GridPoints] : n \in 0..MaxPoints} \cup {EnclosingRing, FoldedRing}

FilterInputs ==
  {[element |-> Element(1, TRUE, [NoTags EXCEPT !.area = a], TRUE, g), bbox |-> FilterBox] :
     a \in {"", "no"}, g \in FilterGeometries}

FilterInit ==
  /\ GenInit
  /\ ExpIdle
  /\ MainIdle
  /\ f_in \in FilterInputs
  /\ f_out = [done |-> FALSE, r |-> FALSE]

FilterApply ==
  /\ ~f_out.done
  /\ f_out' = [done |-> TRUE, r |-> isElementInBounds(f_in.element, f_in.bbox)]
  /\ UNCHANGED <<genVars, expVars, mainVars, f_in>>

FilterNext == FilterApply

SpecFilter == FilterInit /\ [][FilterNext]_vars

\* Geometry, stated without the code's tests.
InBox(q, bbox) == q.lat \in bbox.south..bbox.north /\ q.lon \in bbox.west..bbox.east

VerticesInside(geometry, bbox) == {i \in 1..Len(geometry) : InBox(geometry[i], bbox)}

\* The edges of an element: consecutive points, and for an area of more
\* than two points the closing edge.
EdgesOf(element) ==
  LET g == element.geometry
      n == Len(g)
  IN {<<g[i], g[i + 1]>> : i \in 1..(n - 1)}
       \cup (IF n > 2 /\ element.tags.area # "no" THEN {<<g[n], g[1]>>} ELSE {})

\* Twice the signed area of the triangle (a, b, q).
Side(a, b, q) == (b.lon - a.lon) * (q.lat - a.lat) - (b.lat - a.lat) * (q.lon - a.lon)

\* The rectangle spanned by the end points of an edge shares a point with
\* the box (all coordinates are integers).
SpanMeetsBox(edge, bbox) ==
  \E lat \in bbox.south..bbox.north, lon \in bbox.west..bbox.east :
    /\ lat \in Min2(edge[1].lat, edge[2].lat)..Max2(edge[1].lat, edge[2].lat)
    /\ lon \in Min2(edge[1].lon, edge[2].lon)..Max2(edge[1].lon, edge[2].lon)

\* The segment itself shares a point with the box: the spanned rectangle
\* meets the box and the corners of the box are not all strictly on one side
\* of the line through the segment.
SegmentMeetsBox(edge, bbox) ==
  LET corners == {Pt(bbox.north, bbox.west), Pt(bbox.north, bbox.east),
                  Pt(bbox.south, bbox.east), Pt(bbox.south, bbox.west)}
  IN /\ SpanMeetsBox(edge, bbox)
     /\ ~(\A c \in corners : Side(edge[1], edge[2], c) > 0)
     /\ ~(\A c \in corners : Side(edge[1], edge[2], c) < 0)

\* An area of more than two points whose ring goes around all four corners.
ContainsBox(element, bbox) ==
  /\ Len(element.geometry) > 2
  /\ element.tags.area # "no"
  /\ isPolygonContainsBounds(element.geometry, bbox)

\* No vertex in the box, no edge touching it, the box not inside the element.
EntirelyOutside(element, bbox) ==
  /\ VerticesInside(element.geometry, bbox) = {}
  /\ \A edge \in EdgesOf(element) : ~SegmentMeetsBox(edge, bbox)
  /\ ~ContainsBox(element, bbox)

ConsecutiveEdges(g) == {<<g[i], g[i + 1]>> : i \in 1..(Len(g) - 1)}

\* C18: isElementInBounds returns false for every element with no geometry
\* points; and for an element tagged area=no it returns true exactly when a
\* vertex is inside the box or a consecutive edge passes the edge test:
\* neither the closing edge nor the containment of the box is consulted.
C18_OpenWays ==
  f_out.done =>
    /\ Len(f_in.element.geometry) = 0 => ~f_out.r
    /\ f_in.element.tags.area = "no" =>
         (f_out.r <=> \/ VerticesInside(f_in.element.geometry, f_in.bbox) # {}
                      \/ \E edge \in ConsecutiveEdges(f_in.element.geometry) : SpanMeetsBox(edge, f_in.bbox))

\* A way of three points tagged area=no is rejected although the edge from
\* its last point to its first passes the edge test.
C18_Witness ==
  /\ f_out.done
  /\ ~f_out.r
  /\ f_in.element.tags.area = "no"
  /\ Len(f_in.element.geometry) = 3
  /\ SpanMeetsBox(<<f_in.element.geometry[3], f_in.element.geometry[1]>>, f_in.bbox)

\* The ring around the box, tagged area=no, is rejected although it
\* contains the box.
C18_WitnessRing ==
  /\ f_out.done
  /\ ~f_out.r
  /\ f_in.element.tags.area = "no"
  /\ isPolygonContainsBounds(f_in.element.geometry, f_in.bbox)

\* An element without points is rejected.
C18_WitnessEmpty ==
  /\ f_out.done
  /\ ~f_out.r
  /\ Len(f_in.element.geometry) = 0

BoxCorners(bbox) ==
  {Pt(bbox.north, bbox.west), Pt(bbox.north, bbox.east), Pt(bbox.south, bbox.east), Pt(bbox.south, bbox.west)}

\* An area of at least 3 points with no vertex in the box and no edge, the
\* closing one included, whose bounding rectangle overlaps the box.
AreaMissingBox(element, bbox) ==
  /\ element.tags.area # "no"
  /\ Len(element.geometry) >= 3
  /\ VerticesInside(element.geometry, bbox) = {}
  /\ \A edge \in EdgesOf(element) : ~SpanMeetsBox(edge, bbox)

\* C19: an area of at least 3 points with no vertex in the box and no edge
\* whose bounds overlap the box is accepted exactly when ray casting finds
\* all four corners of the box inside the polygon; it is rejected as soon as
\* one corner is found outside.
C19_ContainmentDecides ==
  (f_out.done /\ AreaMissingBox(f_in.element, f_in.bbox)) =>
    (f_out.r <=> \A corner \in BoxCorners(f_in.bbox) : isPointInPolygon(corner, f_in.element.geometry))

\* The ring around the box is accepted: no vertex, no edge, four corners
\* inside.
C19_Witness ==
  /\ f_out.done
  /\ f_out.r
  /\ AreaMissingBox(f_in.element, f_in.bbox)
  /\ \A corner \in BoxCorners(f_in.bbox) : isPointInPolygon(corner, f_in.element.geometry)

\* The folded ring is rejected: its bounding rectangle covers the box and
\* ray casting finds the corners outside.
C19_WitnessRejected ==
  /\ f_out.done
  /\ ~f_out.r
  /\ AreaMissingBox(f_in.element, f_in.bbox)
  /\ boundsIntersect(getElementBounds(f_in.element.geometry), f_in.bbox)
  /\ \E corner \in BoxCorners(f_in.bbox) : ~isPointInPolygon(corner, f_in.element.geometry)

(***************************************************************************)
(* ExportService                                                           *)
(*                                                                         *)
(* A number is [k, v]: k = "fin" for the finite value v / 1000, "nan",     *)
(* "inf", or "undef" for the value of a read past the end of an array.     *)
(* A geometry handed to the export is explicit: the flat position array    *)
(* and, when present, the index array.                                     *)
(***************************************************************************)
Fin(v) == [k |-> "fin", v |-> v]
NaN == [k |-> "nan", v |-> 0]
Infinity == [k |-> "inf", v |-> 0]
Undefined == [k |-> "undef", v |-> 0]

isFinite(n) == n.k = "fin"
isNaN(n) == n.k \in {"nan", "undef"}

\* n * c
Times(n, c) == IF n.k = "fin" THEN Fin(n.v * c) ELSE n

\* n.toFixed(digits), digits 3 or 6, of a number of at most 3 decimals;
\* calling it on undefined raises a TypeError.
toFixed(n, digits) ==
  IF n.k = "undef" THEN [s |-> "TypeError", neg |-> FALSE, whole |-> 0, frac |-> 0, digits |-> 0]
  ELSE IF n.k = "nan" THEN [s |-> "NaN", neg |-> FALSE, whole |-> 0, frac |-> 0, digits |-> 0]
  ELSE IF n.k = "inf" THEN [s |-> "Infinity", neg |-> FALSE, whole |-> 0, frac |-> 0, digits |-> 0]
  ELSE [s |-> "dec", neg |-> n.v < 0, whole |-> Abs(n.v) \div 1000,
        frac |-> (Abs(n.v) % 1000) * (IF digits = 6 THEN 1000 ELSE 1), digits |-> digits]

parseFloat(t) ==
  IF t.s = "NaN" THEN NaN
  ELSE IF t.s = "Infinity" THEN Infinity
  ELSE Fin((IF t.neg THEN -1 ELSE 1)
             * (t.whole * 1000 + (IF t.digits = 6 THEN t.frac \div 1000 ELSE t.frac)))

\* array[i], i from 0
At(array, i) == IF i + 1 \in 1..Len(array) THEN array[i + 1] ELSE Undefined

RECURSIVE Flatten(_)
Flatten(seqs) == IF seqs = <<>> THEN <<>> ELSE Head(seqs) \o Flatten(Tail(seqs))

\* Mutation of validateGeometry: the scan of the coordinates is left out.
validateGeometry_noScan(geometry) ==
  /\ geometry.present
  /\ geometry.hasPosition
  /\ Len(geometry.positions) # 0
  /\ Len(geometry.positions) % 3 = 0

validateGeometry(geometry) ==
  /\ geometry.present
  /\ geometry.hasPosition
  /\ Len(geometry.positions) # 0
  /\ Len(geometry.positions) % 3 = 0
  /\ \A i \in 1..Len(geometry.positions) :
       isFinite(geometry.positions[i]) /\ ~isNaN(geometry.positions[i])

isValidCoordinate(x, y, z) ==
  /\ isFinite(parseFloat(x)) /\ isFinite(parseFloat(y)) /\ isFinite(parseFloat(z))
  /\ ~isNaN(parseFloat(x)) /\ ~isNaN(parseFloat(y)) /\ ~isNaN(parseFloat(z))

getColorForType(type) ==
  CASE type = "building" -> "#8B4513"
    [] type = "road" -> "#696969"
    [] type = "water" -> "#4169E1"
    [] type = "vegetation" -> "#228B22"
    [] OTHER -> "#808080"

\* typeof c === "number" && isFinite(c), for the three components
isValidVertex(vertex) == \A c \in 1..3 : vertex[c].k = "fin"

\* The cross product of the two edge vectors, and whether its length is
\* positive, in which case the components are divided by the length.
calculateNormal(v1, v2, v3) ==
  LET e1 == [c \in 1..3 |-> v2[c].v - v1[c].v]
      e2 == [c \in 1..3 |-> v3[c].v - v1[c].v]
      n == <<e1[2] * e2[3] - e1[3] * e2[2],
             e1[3] * e2[1] - e1[1] * e2[3],
             e1[1] * e2[2] - e1[2] * e2[1]>>
  IN [cross |-> n, normalized |-> n # <<0, 0, 0>>]

\* One line of the STL text; src is the position in the list of the record
\* the line was written for (0 for the header and the footer).
StlLine(line, xyz, src) == [line |-> line, xyz |-> xyz, src |-> src]

\* The seven lines of a facet (lines 286-300 and 337-351).
facetLines(v1, v2, v3, src) ==
  LET vertexLine(v) == StlLine("vertex", [c \in 1..3 |-> toFixed(v[c], 6)], src)
  IN << StlLine("facet normal", calculateNormal(v1, v2, v3), src),
        StlLine("outer loop", <<>>, src),
        vertexLine(v1), vertexLine(v2), vertexLine(v3),
        StlLine("endloop", <<>>, src),
        StlLine("endfacet", <<>>, src) >>

\* The vertex read at offset i of the position array
vertexAt(positions, i) == <<At(positions, i), At(positions, i + 1), At(positions, i + 2)>>

\* Mutation of stlIndexedFacets: the guard is i + 3 < indices.length.
stlIndexedFacets_short(positions, indices, src) ==
  LET steps == (Len(indices) + 2) \div 3
      facet(t) ==
        LET i == 3 * (t - 1)
            v1 == vertexAt(positions, indices[i + 1] * 3)
            v2 == vertexAt(positions, indices[i + 2] * 3)
            v3 == vertexAt(positions, indices[i + 3] * 3)
        IN IF isValidVertex(v1) /\ isValidVertex(v2) /\ isValidVertex(v3)
             THEN facetLines(v1, v2, v3, src) ELSE <<>>
  IN Flatten([t \in 1..steps |-> IF 3 * (t - 1) + 3 < Len(indices) THEN facet(t) ELSE <<>>])

\* The loop over the index array (lines 253-305).
stlIndexedFacets(positions, indices, src) ==
  LET steps == (Len(indices) + 2) \div 3
      facet(t) ==
        LET i == 3 * (t - 1)
            v1 == vertexAt(positions, indices[i + 1] * 3)
            v2 == vertexAt(positions, indices[i + 2] * 3)
            v3 == vertexAt(positions, indices[i + 3] * 3)
        IN IF isValidVertex(v1) /\ isValidVertex(v2) /\ isValidVertex(v3)
             THEN facetLines(v1, v2, v3, src) ELSE <<>>
  IN Flatten([t \in 1..steps |-> IF 3 * (t - 1) + 2 < Len(indices) THEN facet(t) ELSE <<>>])

\* The loop over the position array of a geometry without index (308-356).
stlPlainFacets(positions, src) ==
  LET steps == (Len(positions) + 8) \div 9
      facet(t) ==
        LET i == 9 * (t - 1)
            v1 == vertexAt(positions, i)
            v2 == vertexAt(positions, i + 3)
            v3 == vertexAt(positions, i + 6)
        IN IF isValidVertex(v1) /\ isValidVertex(v2) /\ isValidVertex(v3)
             THEN facetLines(v1, v2, v3, src) ELSE <<>>
  IN Flatten([t \in 1..steps |-> IF 9 * (t - 1) + 8 < Len(positions) THEN facet(t) ELSE <<>>])

\* One pass of the loop of generateSTLContent over the models: acc is
\* [lines, processedModels, progress].
RECURSIVE stlLoop(_, _, _)
stlLoop(list, k, acc) ==
  IF k > Len(list) THEN acc
  ELSE
    LET model == list[k]
    IN IF ~model.geometry.present \/ ~validateGeometry(model.geometry)
         THEN stlLoop(list, k + 1, acc)
         ELSE
           LET facets == IF model.geometry.hasIndex
                           THEN stlIndexedFacets(model.geometry.positions, model.geometry.index, k)
                           ELSE stlPlainFacets(model.geometry.positions, k)
               processed == acc.processedModels + 1
           IN stlLoop(list, k + 1,
                      [lines |-> acc.lines \o facets,
                       processedModels |-> processed,
                       progress |-> Append(acc.progress, (processed * 900) \div Len(list))])

generateSTLContent(list) ==
  LET done == stlLoop(list, 1, [lines |-> <<StlLine("solid", <<>>, 0)>>,
                                processedModels |-> 0, progress |-> <<>>])
  IN [lines |-> Append(done.lines, StlLine("endsolid", <<>>, 0)),
      progress |-> Append(done.progress, 1000)]

\* What an export hands to the download: kind is "none" when the export
\* returned before writing anything.  progress is in thousandths.
NoFile ==
  [kind |-> "none", threw |-> FALSE, lines |-> <<>>, basematerials |-> <<>>,
   objects |-> <<>>, items |-> <<>>, progress |-> <<>>]

exportSTL(list) ==
  IF Len(list) = 0 THEN NoFile
  ELSE LET content == generateSTLContent(list)
       IN [NoFile EXCEPT !.kind = "stl", !.lines = content.lines,
                         !.threw = \E i \in 1..Len(content.lines) :
                                     /\ content.lines[i].line = "vertex"
                                     /\ \E c \in 1..3 : content.lines[i].xyz[c].s = "TypeError",
                         !.progress = Append(content.progress, 1000)]

\* new Set(models.map(m => m.type)), in insertion order
RECURSIVE materialTypesOf(_, _)
materialTypesOf(list, seen) ==
  IF list = <<>> THEN seen
  ELSE materialTypesOf(Tail(list),
                       IF \E i \in 1..Len(seen) : seen[i] = Head(list).type THEN seen
                       ELSE Append(seen, Head(list).type))

\* materialMap.get(type) || 1
materialIdOf(materialTypes, type) ==
  IF \E i \in 1..Len(materialTypes) : materialTypes[i] = type
    THEN CHOOSE i \in 1..Len(materialTypes) : materialTypes[i] = type
    ELSE 1

\* The vertex elements of an object (lines 551-572).
vertexElements(positions) ==
  LET text(i) == <<toFixed(Times(positions[3 * i - 2], 1000), 3),
                   toFixed(Times(positions[3 * i - 1], 1000), 3),
                   toFixed(Times(positions[3 * i], 1000), 3)>>
      all == [i \in 1..(Len(positions) \div 3) |-> text(i)]
      valid(t) == isValidCoordinate(t[1], t[2], t[3])
  IN SelectSeq(all, valid)

\* Mutation of triangleElements: the triples of the index array are written
\* without the test of lines 582-589.
triangleElements_unchecked(geometry) ==
  LET vertexCount == Len(geometry.positions) \div 3
      indices == geometry.index
      indexed == [t \in 1..(Len(indices) \div 3) |->
                    <<indices[3 * t - 2], indices[3 * t - 1], indices[3 * t]>>]
      plain == [t \in 1..(vertexCount \div 3) |-> <<3 * t - 3, 3 * t - 2, 3 * t - 1>>]
  IN IF geometry.hasIndex THEN indexed ELSE plain

\* The triangle elements of an object (lines 575-607).
triangleElements(geometry) ==
  LET vertexCount == Len(geometry.positions) \div 3
      indices == geometry.index
      indexed == [t \in 1..(Len(indices) \div 3) |->
                    <<indices[3 * t - 2], indices[3 * t - 1], indices[3 * t]>>]
      valid(t) == /\ t[1] < vertexCount /\ t[2] < vertexCount /\ t[3] < vertexCount
                  /\ t[1] # t[2] /\ t[2] # t[3] /\ t[1] # t[3]
      plain == [t \in 1..(vertexCount \div 3) |-> <<3 * t - 3, 3 * t - 2, 3 * t - 1>>]
  IN IF geometry.hasIndex THEN SelectSeq(indexed, valid) ELSE plain

\* One pass of models.forEach of generate3MFContent: acc is
\* [objects, objectId, progress].
RECURSIVE objectLoop(_, _, _, _)
objectLoop(list, materialTypes, k, acc) ==
  IF k > Len(list) THEN acc
  ELSE
    LET model == list[k]
        reported == [acc EXCEPT !.progress = Append(@, ((k - 1) * 900) \div Len(list))]
    IN IF ~model.geometry.present \/ ~validateGeometry(model.geometry)
         THEN objectLoop(list, materialTypes, k + 1, reported)
         ELSE
           LET vertices == vertexElements(model.geometry.positions)
               triangles == triangleElements(model.geometry)
               object == [id |-> acc.objectId, pid |-> materialIdOf(materialTypes, model.type),
                          vertices |-> vertices, triangles |-> triangles, src |-> k]
           IN IF Len(vertices) > 0 /\ Len(triangles) > 0
                THEN objectLoop(list, materialTypes, k + 1,
                                [reported EXCEPT !.objects = Append(@, object), !.objectId = @ + 1])
                ELSE objectLoop(list, materialTypes, k + 1, reported)

\* Mutation of buildItems: the loop runs while i <= objectId.
buildItems_inclusive(objectId) == [i \in 1..objectId |-> [objectid |-> i]]

\* The item elements of the build section (lines 646-649).
buildItems(objectId) == [i \in 1..(objectId - 1) |-> [objectid |-> i]]

generate3MFContent(list) ==
  LET materialTypes == materialTypesOf(list, <<>>)
      basematerials ==
        IF Len(materialTypes) > 0
          THEN << [id |-> 1,
                   materials |-> [i \in 1..Len(materialTypes) |->
                                    [name |-> materialTypes[i],
                                     displaycolor |-> getColorForType(materialTypes[i])]]] >>
          ELSE <<>>
      done == objectLoop(list, materialTypes, 1, [objects |-> <<>>, objectId |-> 1, progress |-> <<>>])
  IN [basematerials |-> basematerials, objects |-> done.objects,
      items |-> buildItems(done.objectId), progress |-> done.progress]

\* Mutation of export3MF: onProgress(1.0) is not called after the download.
export3MF_noFinalProgress(list) ==
  IF Len(list) = 0 THEN NoFile
  ELSE LET content == generate3MFContent(list)
       IN [NoFile EXCEPT !.kind = "3mf", !.basematerials = content.basematerials,
                         !.objects = content.objects, !.items = content.items,
                         !.threw = \E i \in 1..Len(content.objects) :
                                     \E j \in 1..Len(content.objects[i].vertices), c \in 1..3 :
                                       content.objects[i].vertices[j][c].s = "TypeError",
                         !.progress = content.progress]

export3MF(list) ==
  IF Len(list) = 0 THEN NoFile
  ELSE LET content == generate3MFContent(list)
       IN [NoFile EXCEPT !.kind = "3mf", !.basematerials = content.basematerials,
                         !.objects = content.objects, !.items = content.items,
                         !.threw = \E i \in 1..Len(content.objects) :
                                     \E j \in 1..Len(content.objects[i].vertices), c \in 1..3 :
                                       content.objects[i].vertices[j][c].s = "TypeError",
                         !.progress = Append(content.progress, 1000)]

\* Mutation of modelsAfter3MF: the conversion to millimetres is made in
\* place, in the position array of every record that is written.
modelsAfter3MF_inPlace(list) ==
  [k \in 1..Len(list) |->
     IF validateGeometry(list[k].geometry)
       THEN [list[k] EXCEPT !.geometry.positions =
               [i \in 1..Len(@) |-> Times(@[i], 1000)]]
       ELSE list[k]]

\* The list and its records as generate3MFContent leaves them.  The loop
\* body (lines 517-637) reads model.id, model.type and the two arrays of
\* model.geometry; its assignments go to the locals vertices, triangles,
\* xml and objectId, and positions[i] * 1000 makes a new number.
modelsAfter3MF(list) == [k \in 1..Len(list) |-> list[k]]

\* The list and its records as generateSTLContent leaves them: the loop
\* body (lines 237-403) copies coordinates into the locals v1, v2, v3 and
\* assigns to stlContent, totalTriangles and processedModels only.
modelsAfterSTL(list) == [k \in 1..Len(list) |-> list[k]]

(***************************************************************************)
(* The exports on their own: export3MF and exportSTL applied to every list *)
(* of up to MaxRecords records drawn from RecordPool.                      *)
(***************************************************************************)
MaxRecords == 2
MaxExports == 2

\* new Float32Array(values), values in thousandths
Float32Array(values) == [i \in 1..Len(values) |-> Fin(values[i])]

BufferGeometry(positions, hasIndex, index) ==
  [present |-> TRUE, hasPosition |-> TRUE, positions |-> positions,
   hasIndex |-> hasIndex, index |-> index]

AbsentGeometry ==
  [present |-> FALSE, hasPosition |-> FALSE, positions |-> <<>>, hasIndex |-> FALSE, index |-> <<>>]

ExportRecord(id, type, geometry) == [id |-> id, type |-> type, geometry |-> geometry]

\* The six planes of new THREE.BoxGeometry(width, height, depth), in the
\* order px, nx, py, ny, pz, nz: axes u, v, w, directions, extents.
BoxPlanes(width, height, depth) ==
  << [u |-> 3, v |-> 2, w |-> 1, udir |-> -1, vdir |-> -1, width |-> depth, height |-> height, depth |-> width],
     [u |-> 3, v |-> 2, w |-> 1, udir |-> 1, vdir |-> -1, width |-> depth, height |-> height, depth |-> -width],
     [u |-> 1, v |-> 3, w |-> 2, udir |-> 1, vdir |-> 1, width |-> width, height |-> depth, depth |-> height],
     [u |-> 1, v |-> 3, w |-> 2, udir |-> 1, vdir |-> -1, width |-> width, height |-> depth, depth |-> -height],
     [u |-> 1, v |-> 2, w |-> 3, udir |-> 1, vdir |-> -1, width |-> width, height |-> height, depth |-> depth],
     [u |-> 1, v |-> 2, w |-> 3, udir |-> -1, vdir |-> -1, width |-> width, height |-> height, depth |-> -depth] >>

\* Position array and index array of the box, in thousandths: 4 vertices
\* and the triangles (a, b, d), (b, c, d) per plane.
BoxPositions(width, height, depth) ==
  LET planes == BoxPlanes(width, height, depth)
      coordinate(p, k, c) ==
        LET ix == k % 2
            iy == k \div 2
            x == ix * p.width - p.width \div 2
            y == iy * p.height - p.height \div 2
        IN IF c = p.u THEN x * p.udir
           ELSE IF c = p.v THEN y * p.vdir
           ELSE p.depth \div 2
  IN [i \in 1..72 |-> coordinate(planes[((i - 1) \div 12) + 1], ((i - 1) % 12) \div 3, ((i - 1) % 3) + 1)]

BoxIndex ==
  LET corner == <<0, 2, 1, 2, 3, 1>>
  IN [i \in 1..36 |-> 4 * ((i - 1) \div 6) + corner[((i - 1) % 6) + 1]]

Triangle == Float32Array(<<0, 0, 0, 1000, 0, 0, 0, 1000, 0>>)
Quad == Float32Array(<<0, 0, 0, 1000, 0, 0, 1000, 1500, 0, 0, 1500, 0>>)

BoxRecord == ExportRecord(3, "terrain", BufferGeometry(Float32Array(BoxPositions(2000, 1000, 4000)), TRUE, BoxIndex))

RecordPool ==
  { ExportRecord(1, "building", BufferGeometry(Triangle, TRUE, <<0, 1, 2>>)),
    ExportRecord(2, "road", BufferGeometry(Quad, TRUE, <<0, 1, 2, 0, 2, 3>>)),
    BoxRecord,
    ExportRecord(4, "water", BufferGeometry(Triangle, FALSE, <<>>)),
    ExportRecord(5, "road", BufferGeometry([Triangle EXCEPT ![5] = NaN], TRUE, <<0, 1, 2>>)),
    ExportRecord(6, "building", BufferGeometry([Quad EXCEPT ![12] = Infinity], TRUE, <<0, 1, 2, 0, 2, 3>>)),
    ExportRecord(7, "vegetation", BufferGeometry(Triangle, TRUE, <<0, 0, 1>>)),
    ExportRecord(8, "bridge", BufferGeometry(Quad, TRUE, <<0, 1, 2, 0, 2, 7>>)),
    ExportRecord(9, "water", AbsentGeometry),
    ExportRecord(10, "road", BufferGeometry(Quad, TRUE, <<0, 1, 2, 3>>)),
    ExportRecord(11, "building", BufferGeometry(Quad, FALSE, <<>>)) }

ExportInputs == UNION {[1..n -> RecordPool] : n \in 0..MaxRecords}

ExportInit ==
  /\ GenInit
  /\ FunIdle
  /\ MainIdle
  /\ x_models \in ExportInputs
  /\ x_out = NoFile
  /\ x_pc = "idle"
  /\ x_hist = [input |-> x_models, exports |-> 0]

\* ExportService.export3MF(models)
Export3MF ==
  /\ x_hist.exports < MaxExports
  /\ x_pc' = "3mf"
  /\ x_out' = export3MF(x_models)
  /\ x_models' = modelsAfter3MF(x_models)
  /\ x_hist' = [x_hist EXCEPT !.exports = @ + 1]
  /\ UNCHANGED <<genVars, funVars, mainVars>>

\* ExportService.exportSTL(models)
ExportSTL ==
  /\ x_hist.exports < MaxExports
  /\ x_pc' = "stl"
  /\ x_out' = exportSTL(x_models)
  /\ x_models' = modelsAfterSTL(x_models)
  /\ x_hist' = [x_hist EXCEPT !.exports = @ + 1]
  /\ UNCHANGED <<genVars, funVars, mainVars>>

ExportNext == Export3MF \/ ExportSTL

SpecExport == ExportInit /\ [][ExportNext]_vars

\* Properties of a record, stated on its arrays.
VertexCountOf(record) == Len(record.geometry.positions) \div 3

TrianglesOf(record) ==
  IF record.geometry.hasIndex
    THEN [t \in 1..(Len(record.geometry.index) \div 3) |->
            <<record.geometry.index[3 * t - 2], record.geometry.index[3 * t - 1], record.geometry.index[3 * t]>>]
    ELSE [t \in 1..(VertexCountOf(record) \div 3) |-> <<3 * t - 3, 3 * t - 2, 3 * t - 1>>]

FinitePositions(record) ==
  /\ record.geometry.present
  /\ Len(record.geometry.positions) > 0
  /\ Len(record.geometry.positions) % 3 = 0
  /\ \A i \in 1..Len(record.geometry.positions) : record.geometry.positions[i].k = "fin"

BadCoordinate(record) ==
  /\ record.geometry.present
  /\ \E i \in 1..Len(record.geometry.positions) : record.geometry.positions[i].k \in {"nan", "inf"}

ProperTriangle(record, t) ==
  /\ \A c \in 1..3 : t[c] \in 0..(VertexCountOf(record) - 1)
  /\ t[1] # t[2] /\ t[2] # t[3] /\ t[1] # t[3]

\* Finite positions and at least one triangle, every triangle proper.
FullyValid(record) ==
  /\ FinitePositions(record)
  /\ Len(TrianglesOf(record)) > 0
  /\ \A t \in 1..Len(TrianglesOf(record)) : ProperTriangle(record, TrianglesOf(record)[t])

LinesOfKind(kind) == {i \in 1..Len(x_out.lines) : x_out.lines[i].line = kind}

\* C7: after either export of a list of two records, one with a NaN or
\* infinite coordinate and one fully valid, in either order, the export has
\* not thrown and has written a file that holds the vertices and triangles
\* of the valid record and nothing of the other one.
C7_ExportRobust ==
  \A b \in 1..2 :
    ( /\ x_pc \in {"3mf", "stl"}
      /\ Len(x_models) = 2
      /\ FullyValid(x_models[b])
      /\ BadCoordinate(x_models[3 - b]) )
    => /\ ~x_out.threw
       /\ x_out.kind = x_pc
       /\ x_pc = "3mf" =>
            /\ Len(x_out.objects) = 1
            /\ x_out.objects[1].src = b
            /\ Len(x_out.objects[1].vertices) = VertexCountOf(x_models[b])
            /\ \A j \in 1..VertexCountOf(x_models[b]), c \in 1..3 :
                 parseFloat(x_out.objects[1].vertices[j][c])
                   = Times(x_models[b].geometry.positions[3 * (j - 1) + c], 1000)
            /\ x_out.objects[1].triangles = TrianglesOf(x_models[b])
       /\ x_pc = "stl" =>
            /\ \A i \in 1..Len(x_out.lines) : x_out.lines[i].src \in {0, b}
            /\ Cardinality(LinesOfKind("facet normal")) = Len(TrianglesOf(x_models[b]))
            /\ Cardinality(LinesOfKind("vertex")) = 3 * Len(TrianglesOf(x_models[b]))

\* The 3MF export of a record with an infinite coordinate followed by the
\* box has written one object, the box.
C7_Witness ==
  /\ x_pc = "3mf"
  /\ Len(x_models) = 2
  /\ BadCoordinate(x_models[1])
  /\ x_models[2] = BoxRecord
  /\ Len(x_out.objects) = 1
  /\ Len(x_out.objects[1].triangles) = 12

\* A record the 3MF export can emit: finite positions and a proper triangle.
Emittable(record) ==
  /\ FinitePositions(record)
  /\ \E t \in 1..Len(TrianglesOf(record)) : ProperTriangle(record, TrianglesOf(record)[t])

\* C8: in the 3MF output the build section has one item per object, in the
\* order of the objects, each with the id of its object; the objects are,
\* in order, those of the records that can be emitted: a skipped record
\* has no object and no item, and every later emittable record has both.
C8_ItemsFollowObjects ==
  x_pc = "3mf" =>
    /\ Len(x_out.items) = Len(x_out.objects)
    /\ \A i \in 1..Len(x_out.objects) : x_out.items[i].objectid = x_out.objects[i].id
    /\ \A i, j \in 1..Len(x_out.objects) :
         i < j => /\ x_out.objects[i].src < x_out.objects[j].src
                  /\ x_out.objects[i].id # x_out.objects[j].id
    /\ {x_out.objects[i].src : i \in 1..Len(x_out.objects)}
         = {k \in 1..Len(x_models) : Emittable(x_models[k])}

\* A record without a proper triangle, skipped, followed by a record that
\* is emitted as object 1 with item 1.
C8_Witness ==
  /\ x_pc = "3mf"
  /\ Len(x_models) = 2
  /\ FinitePositions(x_models[1])
  /\ ~Emittable(x_models[1])
  /\ Len(x_out.objects) = 1
  /\ x_out.objects[1].src = 2
  /\ x_out.items = <<[objectid |-> 1]>>

\* The material an object's reference resolves to in the file: pid names a
\* property group of the resources by its id, and an object that gives no
\* pindex takes the first entry of that group ("" when no basematerials
\* block has the id).
MaterialOf(object) ==
  LET groups == {g \in 1..Len(x_out.basematerials) : x_out.basematerials[g].id = object.pid}
  IN IF groups = {} THEN ""
     ELSE x_out.basematerials[CHOOSE g \in groups : TRUE].materials[1].name

\* C9: the 3MF output has one basematerials block, with exactly one entry
\* per type that occurs among the records, and the reference on every
\* object resolves to the entry named after the type of the object's record.
C9_Materials ==
  (x_pc = "3mf" /\ Len(x_models) > 0) =>
    /\ Len(x_out.basematerials) = 1
    /\ LET materials == x_out.basematerials[1].materials
       IN /\ {materials[i].name : i \in 1..Len(materials)}
               = {x_models[k].type : k \in 1..Len(x_models)}
          /\ \A i, j \in 1..Len(materials) : materials[i].name = materials[j].name => i = j
    /\ \A i \in 1..Len(x_out.objects) :
         MaterialOf(x_out.objects[i]) = x_models[x_out.objects[i].src].type

\* A record with finite positions and an index array of whole triangles
\* whose entries are all vertex numbers.
ValidIndexed(record) ==
  /\ FinitePositions(record)
  /\ record.geometry.hasIndex
  /\ Len(record.geometry.index) % 3 = 0
  /\ \A i \in 1..Len(record.geometry.index) :
       record.geometry.index[i] \in 0..(VertexCountOf(record) - 1)

FacetBlock == <<"facet normal", "outer loop", "vertex", "vertex", "vertex", "endloop", "endfacet">>

\* C10: the STL text of a single valid record whose index array holds k
\* triangles is one solid line, k facet blocks of a normal line and three
\* vertex lines each, and one endsolid line; k is 12 for the box.
C10_FacetCount ==
  (x_pc = "stl" /\ Len(x_models) = 1 /\ ValidIndexed(x_models[1])) =>
    LET k == Len(x_models[1].geometry.index) \div 3
    IN /\ Len(x_out.lines) = 7 * k + 2
       /\ x_out.lines[1].line = "solid"
       /\ x_out.lines[7 * k + 2].line = "endsolid"
       /\ \A t \in 0..(k - 1), l \in 1..7 : x_out.lines[1 + 7 * t + l].line = FacetBlock[l]
       /\ Cardinality(LinesOfKind("facet normal")) = k
       /\ (x_models[1] = BoxRecord => k = 12)

\* The STL text of the box alone has 12 facets.
C10_Witness ==
  /\ x_pc = "stl"
  /\ x_models = <<BoxRecord>>
  /\ Cardinality(LinesOfKind("facet normal")) = 12
  /\ Cardinality(LinesOfKind("vertex")) = 36

InvalidBox(bbox) == bbox.north <= bbox.south \/ bbox.east <= bbox.west

\* C12: a pass started with an invalid or degenerate bounding box (north <=
\* south or east <= west) fails as a whole and publishes no records: when
\* generateModels has returned, the registry is empty.
C12_InvalidBoxPublishesNothing ==
  (pc = "idle" /\ pass > 0 /\ InvalidBox(call.bbox)) => models = <<>>

\* The elements of the current call that the forEach has visited.
Visited == IF pc = "elements" THEN 1..(idx - 1) ELSE IF pc = "idle" /\ pass > 0 THEN 1..Len(call.elements) ELSE {}

\* The element reaches a builder: it has tags and geometry, passes the
\* filter, matches an enabled category and is not a building below the
\* minimum area.
Dispatched(e) ==
  /\ e.hasTags /\ e.hasGeometry
  /\ isElementInBounds(e, call.bbox)
  /\ branchOf(e.tags, call.modelConfig) # "none"
  /\ ~(branchOf(e.tags, call.modelConfig) = "building" /\ shouldIgnoreBuilding(e, call.modelConfig))

PointsInside(e) == Len(SelectSeq(e.geometry, LAMBDA p : InBox(p, call.bbox)))

\* The builder of the element raises an error (the trees of a vegetation
\* area) or finds too few points of the element inside the box.
BuilderFails(e) ==
  LET branch == branchOf(e.tags, call.modelConfig)
  IN /\ Dispatched(e)
     /\ \/ branch \in {"building", "water", "vegetation"} /\ PointsInside(e) < 3
        \/ branch \in {"road", "bridge"} /\ PointsInside(e) < 2
        \/ branch = "vegetation" /\ call.modelConfig.vegetation.treeConfig.enabled

BuilderSucceeds(e) == Dispatched(e) /\ ~BuilderFails(e)

RecordsOf(e) == {k \in 1..Len(models) : models[k].id.el = e.id /\ models[k].id.kind # "base-platform"}

\* C13: a builder that fails does not end the pass.  Among the elements
\* visited so far, every one that reaches a builder has been handed to it, in
\* input order, whether or not an earlier builder failed; every one whose
\* builder succeeds has its record in the registry; the terrain record is
\* still there; and when generateModels has returned every element of the
\* input has been visited.
C13_FailureIsLocal ==
  LET seen == {j \in Visited : Dispatched(call.elements[j])}
  IN (pc \in {"elements", "idle"} /\ pass > 0) =>
       /\ Len(calls) = Cardinality(seen)
       /\ \A j \in seen : calls[Cardinality({i \in seen : i <= j})].el = call.elements[j].id
       /\ \A j \in Visited : BuilderSucceeds(call.elements[j]) => RecordsOf(call.elements[j]) # {}
       /\ \A j \in Visited : BuilderFails(call.elements[j]) /\ (\A i \in Visited : call.elements[i].id = call.elements[j].id => i = j)
                                => RecordsOf(call.elements[j]) = {}
       /\ (call.modelConfig.terrain.enabled => Len(models) > 0 /\ models[1].id.kind = "base-platform")
       /\ (pc = "elements" => idx <= Len(call.elements) + 1)

\* generateModels has returned from a call of two elements: the builder of
\* the first raised an error and left no record, the second was built.
C13_Witness ==
  /\ pc = "idle" /\ pass > 0 /\ Len(call.elements) = 2
  /\ BuilderFails(call.elements[1])
  /\ branchOf(call.elements[1].tags, call.modelConfig) = "vegetation"
  /\ PointsInside(call.elements[1]) >= 3
  /\ RecordsOf(call.elements[1]) = {}
  /\ BuilderSucceeds(call.elements[2])
  /\ RecordsOf(call.elements[2]) # {}
  /\ Len(calls) = 2

\* C14: validation gates insertion: every record of the registry has a
\* geometry that is not null (a geometry that failed validation is never
\* inserted).
C14_ValidatedRecords ==
  \A k \in 1..Len(models) : ~models[k].geometry.isNull

\* A Building element that passes the filter: classified as a building, at
\* least 3 points of its footprint inside the box, not below the minimum area.
BuildingInput(e) ==
  /\ e.hasTags /\ e.hasGeometry
  /\ getElementType(e.tags) = "building"
  /\ isElementInBounds(e, call.bbox)
  /\ PointsInside(e) >= 3
  /\ ~shouldIgnoreBuilding(e, call.modelConfig)

OnlyBuildings ==
  /\ pc = "idle" /\ pass > 0
  /\ call.modelConfig.terrain.enabled
  /\ \A j \in 1..Len(call.elements) : BuildingInput(call.elements[j])

TerrainThenBuildings ==
  /\ Len(models) = 1 + Len(call.elements)
  /\ models[1].id.kind = "base-platform" /\ models[1].type = "terrain"
  /\ \A j \in 1..Len(call.elements) :
        /\ models[1 + j].id = [kind |-> "building", el |-> call.elements[j].id, seg |-> 0]
        /\ models[1 + j].type = "building"

RoadInput(e) ==
  /\ Dispatched(e)
  /\ branchOf(e.tags, call.modelConfig) = "road"
  /\ Len(e.geometry) >= 2
  /\ PointsInside(e) = Len(e.geometry)
  /\ \A i \in 1..(Len(e.geometry) - 1) : e.geometry[i] # e.geometry[i + 1]

\* The lookup entry of the element's road class; the category-level values
\* when the class has none.
ExpectedRoadConfig(e) ==
  LET roads == call.modelConfig.roads
  IN IF e.tags.highway \in DOMAIN roads.types THEN roads.types[e.tags.highway]
     ELSE [width |-> roads.width * call.modelConfig.global.scale,
           height |-> roads.height * call.modelConfig.global.scale,
           color |-> roads.color]

RoadRecordsOf(e) == {k \in 1..Len(models) : models[k].id.kind = "road" /\ models[k].id.el = e.id}

OccursOnce(j) == \A i \in 1..Len(call.elements) : call.elements[i].id = call.elements[j].id => i = j

C16_WitnessFallback ==
  \E j \in Visited :
    LET e == call.elements[j]
    IN /\ RoadInput(e)
       /\ e.tags.highway \notin DOMAIN call.modelConfig.roads.types
       /\ Cardinality(RoadRecordsOf(e)) = 2

\* The record of a building that the pass built once.
BuildingRecordOf(e) == CHOOSE k \in 1..Len(models) : models[k].id.kind = "building" /\ models[k].id.el = e.id

BuiltOnce(j) ==
  /\ j \in Visited /\ OccursOnce(j)
  /\ BuildingInput(call.elements[j])
  /\ call.modelConfig.buildings.enabled

\* The extrusion depth of a building record: its extent along the extrusion
\* axis less the two bevels of 0.05 * scale.
ExtrusionDepth(r) == (r.geometry.hi[3] - r.geometry.lo[3]) - 2 * ((5 * scale) \div 100)

\* max(baseHeight, levels * 3, minHeight) in hundredths, for a levels value.
LevelsHeight(levels) ==
  Max2(call.modelConfig.buildings.baseHeight,
       Max2(levels * 300, call.modelConfig.buildings.minHeight)) * call.modelConfig.global.scale

Scaled(hundredths) == (hundredths * scale) \div 100

C20_RoadOnBaseline ==
  /\ \A i \in 1..Len(scene) :
       scene[i].kind = "road" => MeshLowestY(scene[i]) = terrainHeight
  /\ \A i \in 1..Len(models) :
       (models[i].type = "road" /\ ~models[i].geometry.isNull)
         => models[i].geometry.lo[2] = models[i].baseline

(***************************************************************************)
(* Generation: bridges, exported coordinates, counters, identifiers        *)
(***************************************************************************)
\* The pillars of the bridge segment at scene[i]: the run of pillar meshes
\* added to the scene just before it.
PillarsOf(i) ==
  {j \in 1..(i - 1) : \A k \in j..(i - 1) : scene[k].kind = "pillar"}

MeshHighestY(mesh) ==
  mesh.position[2] + (IF mesh.rotX THEN mesh.geometry.hi[3] ELSE mesh.geometry.hi[2])

\* C21: for every bridge segment built with pillars enabled, the number of
\* pillars is floor(segmentDistance / spacing), and every pillar reaches from
\* the terrain baseline to the lowest Y of the deck.
C21_Pillars ==
  \A i \in 1..Len(scene) :
    (scene[i].kind = "bridge" /\ call.modelConfig.bridges.pillarConfig.enabled) =>
      LET distance == scene[i].geometry.hi[1] - scene[i].geometry.lo[1]
      IN /\ Cardinality(PillarsOf(i)) = distance \div call.modelConfig.bridges.pillarConfig.spacing
         /\ \A j \in PillarsOf(i) :
               /\ MeshLowestY(scene[j]) = terrainHeight
               /\ MeshHighestY(scene[j]) = MeshLowestY(scene[i])

\* The scene mesh a road or bridge record was made from.
MeshOf(r) ==
  CHOOSE i \in 1..Len(scene) :
    scene[i].kind = r.type /\ scene[i].position = r.position /\ scene[i].rotY = r.rotation

Extent(geometry) ==
  <<geometry.hi[1] - geometry.lo[1], geometry.hi[2] - geometry.lo[2], geometry.hi[3] - geometry.lo[3]>>

\* rotation.y = atan2(dz, dx), kept as <<dz, dx>>: no turn or a half turn
\* when dz = 0, a quarter turn when dx = 0.
QuarterTurn(rotation) == rotation[1] # 0 /\ rotation[2] = 0

\* The extent in the world frame of a box turned about the Y axis by a
\* multiple of a quarter turn.
TurnedExtent(mesh) ==
  LET e == Extent(mesh.geometry)
  IN IF QuarterTurn(mesh.rotY) THEN <<e[3], e[2], e[1]>> ELSE e

\* C22: the coordinates stored for export are the builder's vertices with
\* the position and the rotation of the mesh applied: the geometry of a road
\* or bridge record whose segment runs along an axis has the extent of the
\* turned box.
C22_ExportedTurned ==
  \A k \in 1..Len(models) :
    LET r == models[k]
    IN (r.type \in {"road", "bridge"} /\ ~r.geometry.isNull
          /\ (r.rotation[1] = 0 \/ r.rotation[2] = 0))
         => Extent(r.geometry) = TurnedExtent(scene[MeshOf(r)])

\* No tag map, no geometry list, or tags of none of the five categories.
Unclassified(e) == ~e.hasTags \/ ~e.hasGeometry \/ getElementType(e.tags) = "unknown"

\* C24: the step of the pass that handles an element without a tag map,
\* without a geometry list or with tags of no category leaves the registry,
\* the counters and totals, the scene and the list of builder calls as they
\* were.
C24_UnclassifiedDropped ==
  [][(pc = "elements" /\ idx <= Len(call.elements) /\ Unclassified(call.elements[idx]))
       => (models' = models /\ modelStats' = modelStats /\ scene' = scene /\ calls' = calls)]_vars

\* An element with tags of no category, inside the box, has been handled
\* after the terrain record was inserted.
C24_Witness ==
  /\ pc = "elements" /\ idx = 2
  /\ call.elements[1].hasTags /\ call.elements[1].hasGeometry
  /\ getElementType(call.elements[1].tags) = "unknown"
  /\ isElementInBounds(call.elements[1], call.bbox)
  /\ Len(models) = 1 /\ calls = <<>>

\* An element without a tag map has been handled after a building.
C24_WitnessNoTags ==
  /\ pc = "elements" /\ idx = 3
  /\ ~call.elements[2].hasTags
  /\ BuilderSucceeds(call.elements[1])
  /\ Len(calls) = 1

\* An element without a geometry list has been handled.
C24_WitnessNoGeometry ==
  /\ pc = "elements" /\ idx = 2
  /\ ~call.elements[1].hasGeometry
  /\ calls = <<>>

\* The input elements of the current call with at least one record of the
\* given type in the registry.
ElementsWithRecord(type) ==
  {j \in 1..Len(call.elements) :
     \E k \in 1..Len(models) : models[k].type = type /\ models[k].id.el = call.elements[j].id}

\* C25: after a pass, each per-category counter of getModelStats is the
\* number of input elements of the category that have a record in the
\* registry.
C25_CountersMatchRecords ==
  (pc = "idle" /\ pass > 0) =>
    /\ getModelStats.buildings = Cardinality(ElementsWithRecord("building"))
    /\ getModelStats.roads = Cardinality(ElementsWithRecord("road"))
    /\ getModelStats.bridges = Cardinality(ElementsWithRecord("bridge"))
    /\ getModelStats.water = Cardinality(ElementsWithRecord("water"))
    /\ getModelStats.vegetation = Cardinality(ElementsWithRecord("vegetation"))

\* C26: every vegetation element handed to createVegetation with at least 3
\* points inside the box has exactly one vegetation record in the registry
\* after the pass, with trees enabled or not.
C26_OneVegetationRecord ==
  (pc = "idle" /\ pass > 0) =>
    \A j \in 1..Len(call.elements) :
      LET e == call.elements[j]
      IN (Dispatched(e) /\ branchOf(e.tags, call.modelConfig) = "vegetation"
            /\ PointsInside(e) >= 3 /\ OccursOnce(j))
           => Cardinality({k \in 1..Len(models) :
                             models[k].type = "vegetation" /\ models[k].id.el = e.id}) = 1

DistinctElementIds ==
  \A i, j \in 1..Len(call.elements) : call.elements[i].id = call.elements[j].id => i = j

\* C27: when the elements of the call have pairwise distinct ids, the
\* records of the registry have pairwise distinct ids, and the records made
\* from one element are all of one type.
C27_DistinctIds ==
  (InPass /\ DistinctElementIds) =>
    /\ \A k, l \in 1..Len(models) : models[k].id = models[l].id => k = l
    /\ \A k, l \in 1..Len(models) :
          (models[k].id.kind # "base-platform" /\ models[l].id.kind # "base-platform"
             /\ models[k].id.el = models[l].id.el) => models[k].type = models[l].type

\* A pass over a road of two segments and a building has returned with
\* the terrain record, two road records and a building record.
C27_Witness ==
  /\ pc = "idle" /\ pass > 0 /\ DistinctElementIds
  /\ Len(call.elements) = 2
  /\ Len(models) = 4
  /\ Cardinality(RoadRecordsOf(call.elements[1])) = 2
  /\ models[4].type = "building"

(***************************************************************************)
(* Export: progress, triangle indices, resource ids                        *)
(***************************************************************************)
\* C23: for a non-empty list the values passed to the progress callback, in
\* thousandths, never decrease and lie between 0 and 1000, and when the
\* export did not throw the last one is 1000; records that are skipped
\* change nothing of this.
C23_ProgressMonotone ==
  (x_pc \in {"3mf", "stl"} /\ Len(x_models) > 0) =>
    LET p == x_out.progress
    IN /\ \A i \in 1..Len(p) : p[i] \in 0..1000
       /\ \A i \in 1..(Len(p) - 1) : p[i] <= p[i + 1]
       /\ ~x_out.threw => (Len(p) > 0 /\ p[Len(p)] = 1000)

\* A 3MF export of two records, the first of them skipped, has reported
\* 0, 0.45 and 1.
C23_Witness ==
  /\ x_pc = "3mf"
  /\ Len(x_models) = 2
  /\ BadCoordinate(x_models[1])
  /\ Len(x_out.objects) = 1
  /\ x_out.progress = <<0, 450, 1000>>

\* An STL export of two records, the first of them skipped, has reported
\* 0.45 for the record it wrote and 1 twice.
C23_WitnessSTL ==
  /\ x_pc = "stl"
  /\ Len(x_models) = 2
  /\ BadCoordinate(x_models[1])
  /\ x_out.progress = <<450, 1000, 1000>>

\* C28: in every object of a 3MF output the three indices of a triangle are
\* pairwise distinct and each of them is the number of a vertex element of
\* that object, counted from 0; the object of a record without an index
\* array holds the triangles (3j, 3j+1, 3j+2) with 3j+2 below the number of
\* its vertex elements, and no others.
C28_TriangleIndices ==
  x_pc = "3mf" =>
    \A o \in 1..Len(x_out.objects) :
      LET object == x_out.objects[o]
          n == Len(object.vertices)
      IN /\ \A t \in 1..Len(object.triangles) :
              LET v == object.triangles[t]
              IN /\ \A c \in 1..3 : v[c] \in 0..(n - 1)
                 /\ v[1] # v[2] /\ v[2] # v[3] /\ v[1] # v[3]
         /\ ~x_models[object.src].geometry.hasIndex =>
              /\ Len(object.triangles) = Cardinality({j \in 0..n : 3 * j + 2 < n})
              /\ \A t \in 1..Len(object.triangles) :
                    object.triangles[t] = <<3 * (t - 1), 3 * (t - 1) + 1, 3 * (t - 1) + 2>>

\* A 3MF export has written two objects: one of a record whose index array
\* names a vertex it does not have, with the one triangle that is left, and
\* one of a record of four vertices without an index array, with the
\* triangle (0, 1, 2).
C28_Witness ==
  /\ x_pc = "3mf"
  /\ Len(x_models) = 2
  /\ x_models[1].geometry.hasIndex
  /\ \E t \in 1..Len(TrianglesOf(x_models[1])) : ~ProperTriangle(x_models[1], TrianglesOf(x_models[1])[t])
  /\ ~x_models[2].geometry.hasIndex
  /\ VertexCountOf(x_models[2]) = 4
  /\ Len(x_out.objects) = 2
  /\ x_out.objects[1].triangles = <<(<<0, 1, 2>>)>>
  /\ x_out.objects[2].triangles = <<(<<0, 1, 2>>)>>

\* The objects of a 3MF output carry the ids 1..N in the order in which
\* they are written.
C29_ObjectIdsConsecutive ==
  x_pc = "3mf" => \A o \in 1..Len(x_out.objects) : x_out.objects[o].id = o

\* C29: in the resources of a 3MF output all ids are pairwise distinct: the
\* objects carry the ids 1..N in the order in which they are written, and
\* no object has the id of the basematerials block.
C29_ResourceIds ==
  x_pc = "3mf" =>
    /\ \A o \in 1..Len(x_out.objects) : x_out.objects[o].id = o
    /\ \A o \in 1..Len(x_out.objects), b \in 1..Len(x_out.basematerials) :
          x_out.objects[o].id # x_out.basematerials[b].id

(***************************************************************************)
(* MainPage: selecting an area and fetching its data                       *)
(***************************************************************************)
MaxSelections == 3

MainBoxes == {BBox(8, 0, 8, 0), BBox(8, 0, 16, 0), BBox(16, 8, 16, 8)}

\* An element of the body the Overpass server sends.
RawElement(type, id, hasGeometry, geometry, hasMembers) ==
  [type |-> type, id |-> id, hasGeometry |-> hasGeometry, geometry |-> geometry,
   lat |-> 4, lon |-> 4, hasMembers |-> hasMembers]

\* The body the server sends for the query of a box: every box has its own.
Answer(bbox) ==
  IF bbox = BBox(8, 0, 8, 0)
    THEN [hasElements |-> TRUE,
          elements |-> << RawElement("way", 1, TRUE, <<Pt(2, 2), Pt(2, 6)>>, FALSE),
                          RawElement("node", 2, FALSE, <<>>, FALSE),
                          RawElement("relation", 3, FALSE, <<>>, TRUE) >>]
  ELSE IF bbox = BBox(8, 0, 16, 0)
    THEN [hasElements |-> TRUE,
          elements |-> << RawElement("way", 4, TRUE, <<Pt(2, 10), Pt(6, 10), Pt(6, 14)>>, FALSE),
                          RawElement("way", 5, FALSE, <<>>, FALSE) >>]
  ELSE [hasElements |-> FALSE, elements |-> <<>>]

\* OverpassService.processOSMData(rawData)
processOSMData(rawData) ==
  IF ~rawData.hasElements THEN [isNull |-> FALSE, elements |-> <<>>]
  ELSE
    LET processed(element) ==
          IF element.type = "way" /\ element.hasGeometry
            THEN [element EXCEPT !.geometry = [i \in 1..Len(@) |-> Pt(@[i].lat, @[i].lon)]]
          ELSE IF element.type = "node"
            THEN [element EXCEPT !.hasGeometry = TRUE, !.geometry = <<Pt(element.lat, element.lon)>>]
          ELSE IF element.type = "relation" /\ element.hasMembers
            THEN [element EXCEPT !.hasGeometry = TRUE, !.geometry = <<>>]
          ELSE element
        kept(element) == element.hasGeometry /\ Len(element.geometry) > 0
    IN [isNull |-> FALSE,
        elements |-> SelectSeq([i \in 1..Len(rawData.elements) |-> processed(rawData.elements[i])], kept)]

FetchFailed == [isNull |-> FALSE, message |-> "fetch failed, retry"]

\* handleAreaSelected(bbox, selectionInfo) up to its await: the state is
\* reset and queryArea sends the query.
HandleAreaSelected ==
  /\ invoked < MaxSelections
  /\ \E bbox \in MainBoxes, selectionInfo \in {Null, [isNull |-> FALSE, shape |-> "circle"]} :
       /\ selectedBBox' = bbox
       /\ selectedArea' = IF selectionInfo = Null
                             THEN [isNull |-> FALSE, bbox |-> bbox, shape |-> "rectangle"]
                             ELSE selectionInfo
       /\ basicConfig' = [basicConfig EXCEPT !.coordinateSystem.centerPoint =
                            <<(bbox.east + bbox.west) \div 2, (bbox.north + bbox.south) \div 2>>]
       /\ fetches' = fetches \cup {[n |-> invoked + 1, bbox |-> bbox, stage |-> "fetch"]}
  /\ isLoading' = TRUE
  /\ error' = Null
  /\ osmData' = Null
  /\ invoked' = invoked + 1
  /\ UNCHANGED <<genVars, funVars, expVars>>

\* queryArea has returned data to the call f of handleAreaSelected: the
\* rest of its try block and its finally block.
Resolved(f, data) ==
  /\ osmData' = data
  /\ isLoading' = FALSE
  /\ fetches' = fetches \ {f}
  /\ UNCHANGED <<selectedBBox, selectedArea, error, basicConfig, invoked, genVars, funVars, expVars>>

\* queryArea has thrown to the call f of handleAreaSelected: its catch
\* block and its finally block.
Rejected(f) ==
  /\ error' = FetchFailed
  /\ isLoading' = FALSE
  /\ fetches' = fetches \ {f}
  /\ UNCHANGED <<selectedBBox, selectedArea, osmData, basicConfig, invoked, genVars, funVars, expVars>>

\* The fetch of a call of queryArea settles: with a response that is ok,
\* with a response that is not, or with a network error.
FetchSettles ==
  \E f \in fetches, outcome \in {"ok", "status", "network"} :
    /\ f.stage = "fetch"
    /\ IF outcome = "ok"
         THEN /\ fetches' = (fetches \ {f}) \cup {[f EXCEPT !.stage = "json"]}
              /\ UNCHANGED <<selectedBBox, selectedArea, osmData, isLoading, error, basicConfig,
                             invoked, genVars, funVars, expVars>>
         ELSE Rejected(f)

\* response.json() of a call of queryArea settles: with the body, which
\* processOSMData turns into the result, or with a syntax error.
JsonSettles ==
  \E f \in fetches, outcome \in {"body", "syntax"} :
    /\ f.stage = "json"
    /\ IF outcome = "body" THEN Resolved(f, processOSMData(Answer(f.bbox))) ELSE Rejected(f)

MainInit == GenInit /\ FunIdle /\ ExpIdle /\ MainIdle

MainNext == HandleAreaSelected \/ FetchSettles \/ JsonSettles

SpecMain == MainInit /\ [][MainNext]_vars

\* C30: whenever osmData is not null it is the result of the query for the
\* selected box, and isLoading is true as long as the query of the latest
\* call of handleAreaSelected has not settled.
C30_LatestResponse ==
  /\ osmData # Null => osmData = processOSMData(Answer(selectedBBox))
  /\ (\E f \in fetches : f.n = invoked) => isLoading

\* C30, the race alone: when two calls were made, the second before the
\* query of the first had settled, and both queries have delivered their
\* data, osmData is the result of the second.
C30_LateResponseIgnored ==
  (invoked = 2 /\ fetches = {} /\ error = Null /\ osmData # Null) =>
    osmData = processOSMData(Answer(selectedBBox))

====
